---- MODULE Spec2Model ----
(***************************************************************************)
(* The video-acquisition-and-analysis pipeline of app.py: one POST         *)
(* /analyze request, from the handler's entry to its response, with the    *)
(* download tool, the FTP staging host, the local disk and the generative  *)
(* service as nondeterministic collaborators.                              *)
(*                                                                         *)
(* Strings are modelled as sequences of tokens: a substring test looks     *)
(* for a pattern inside the (case-folded) tokens, startswith looks at the  *)
(* first token, basename takes the last one.                               *)
(***************************************************************************)
EXTENDS Integers, Sequences, FiniteSets, TLC

(***************************************************************************)
(* Program constants                                                       *)
(***************************************************************************)
max_wait == 120
poll_interval == 2
max_retries == 3
initial_retry_delay == 5
hint_margin == 2

(***************************************************************************)
(* Inputs of the model                                                     *)
(***************************************************************************)
\* The URLs a request may carry (<<>> is a request without url).
UrlTikTok == <<"https://", "www.tiktok.com", "/@x/video/123">>
UrlInstagram == <<"https://", "www.instagram.com", "/reel/1">>
UrlInstagramUpper == <<"HTTPS://", "WWW.INSTAGRAM.COM", "/reel/1">>
UrlOwnRender == <<"https://", "app.onrender.com", "/">>
UrlOwnUpper == <<"HTTP://", "LOCALHOST", ":5000/">>
UrlOwnInQuery == <<"https://", "www.tiktok.com", "/?next=", "127.0.0.1">>
NoUrl == <<>>
Urls == {NoUrl, UrlTikTok, UrlInstagram, UrlInstagramUpper, UrlOwnRender,
         UrlOwnUpper, UrlOwnInQuery}

\* Who sends the request: no valid bearer id, a blocked user, a normal user.
Users == {"anonymous", "blocked", "ok"}

\* Sizes (in MB) the downloaded media may have.
FileSizesMB == {5, 45}

\* FTP_DOMAIN settings: unset, with a scheme, without a scheme.
FtpDomainUnset == <<>>
FtpDomainScheme == <<"https://", "cdn.example.com">>
FtpDomainBare == <<"cdn.example.com">>
FtpDomains == {FtpDomainUnset, FtpDomainScheme, FtpDomainBare}
FtpHost == "ftp.example.com"

\* Delay hints a rate-limit error text may embed ("retry in Ns"), in tenths
\* of a second; NoHint is an error text without the phrase.
MaxHintSeconds == 30
NoHint == <<>>
HintTenths == {NoHint, <<35>>, <<MaxHintSeconds * 10>>}

\* Response texts of a successful generation call.
ResponseTexts == {"", "**T** [00:05] a"}
Placeholder == "Khong co noi dung tra ve."

(***************************************************************************)
(* String helpers                                                          *)
(***************************************************************************)
\* str.lower() of a token.
Lower(tok) ==
    CASE tok = "HTTPS://" -> "https://"
      [] tok = "HTTP://" -> "http://"
      [] tok = "WWW.INSTAGRAM.COM" -> "www.instagram.com"
      [] tok = "LOCALHOST" -> "localhost"
      [] OTHER -> tok

\* The host patterns a token contains as a substring (case-sensitive).
PatternsIn(tok) ==
    CASE tok = "app.onrender.com" -> {"onrender.com"}
      [] tok = "localhost" -> {"localhost"}
      [] tok = "127.0.0.1" -> {"127.0.0.1"}
      [] tok = "www.instagram.com" -> {"instagram.com"}
      [] OTHER -> {}

OwnHostPatterns == {"onrender.com", "railway.app", "localhost", "127.0.0.1"}

\* IsOwnHost as it would be without re.IGNORECASE.
IsOwnHostCaseSensitive(u) ==
    \E k \in DOMAIN u : PatternsIn(u[k]) \cap OwnHostPatterns # {}

\* re.search(r'(onrender\.com|railway\.app|localhost|127\.0\.0\.1)', url, re.IGNORECASE)
IsOwnHost(u) ==
    \E k \in DOMAIN u : PatternsIn(Lower(u[k])) \cap OwnHostPatterns # {}

\* 'instagram.com' in url.lower()
IsInstagram(u) ==
    \E k \in DOMAIN u : "instagram.com" \in PatternsIn(Lower(u[k]))

\* s.startswith("http://") or s.startswith("https://")
StartsWithHttp(p) == Len(p) > 0 /\ p[1] \in {"http://", "https://"}

\* os.path.basename(p)
Basename(p) == p[Len(p)]

\* The local names of a request: video_<t>.mp4 and temp_<t>_<remote name>.
temp_name == <<"video_t.mp4">>
TempPathFor(remote_filename) == <<"temp_t_", remote_filename>>
\* The name upload_video_to_ftp gives the staged object.
new_filename == "video_u.mp4"

\* upload_video_to_ftp's public URL.
PublicUrl(ftp_domain) ==
    IF ftp_domain # <<>>
    THEN ftp_domain \o <<"/videos/", new_filename>>
    ELSE <<"http://", FtpHost, "/videos/", new_filename>>

\* Python's None for a path (falsy, like the empty string).
None == <<>>
\* A local variable of analyze() that has not been assigned yet.
Unbound == <<"<unbound>">>
NoException == "none"
NoText == "<no text>"

\* The download strategies tried for an Instagram URL, in list order.
methods == <<"best_iphone", "worst_chrome", "worst_android">>

\* The names visible in analyze()'s body: its locals and the module globals
\* it could read.
AnalyzeNames == {"user", "data", "url", "mode", "video_path", "script_text",
                 "request", "jsonify", "os", "gc", "db", "CHOSEN_MODEL"}

(***************************************************************************)
(* Generation errors: a head (the start of the error text) and an          *)
(* optional "retry in Ns" hint.                                            *)
(***************************************************************************)
ErrorHeads == {"429 Too Many Requests", "Quota exceeded", "500 Internal"}
GenErrors == [head : ErrorHeads, hint : HintTenths]

LowerErr(tok) == IF tok = "Quota exceeded" THEN "quota exceeded" ELSE tok

ErrPatternsIn(tok) ==
    CASE tok = "429 Too Many Requests" -> {"429"}
      [] tok = "quota exceeded" -> {"quota"}
      [] tok = "rate limit" -> {"rate limit"}
      [] OTHER -> {}

\* api_translate: max_retries and the initial retry_delay
translate_max_retries == 3
translate_retry_delay == 5

\* A classification that takes every error for a rate-limit signal.
IsRateLimitAny(e) == TRUE

\* "429" in error_msg or "quota" in error_msg.lower() or "rate limit" in error_msg.lower()
IsRateLimit(e) ==
    \/ "429" \in ErrPatternsIn(e.head)
    \/ "quota" \in ErrPatternsIn(LowerErr(e.head))
    \/ "rate limit" \in ErrPatternsIn(LowerErr(e.head))

\* IsLastAttempt as it would be with the bound tested one attempt too late.
IsLastAttemptOffByOne(a) == ~(a < max_retries)

\* not (attempt < max_retries - 1)
IsLastAttempt(a) == ~(a < max_retries - 1)

\* The hinted delay without the added seconds.
HintDelayNoMargin(h) == h \div 10

\* int(float(retry_match.group(1))) + 2, the hint given in tenths of a second
HintDelay(h) == (h \div 10) + hint_margin

\* A delay that is not increased after a wait.
BackoffNone(delay) == delay

\* retry_delay *= 2
Backoff(delay) == delay * 2

\* The wait before the next attempt: the hint's delay if the text has one,
\* else the current retry_delay.
NextWait(e, delay) == IF e.hint # NoHint THEN HintDelay(e.hint[1]) ELSE delay

(***************************************************************************)
(* State                                                                   *)
(***************************************************************************)
VARIABLES
    pc,              \* the position of the request in analyze()
    user,            \* who sent the request
    url,             \* the url of the request body
    ftp_configured,  \* FTP_HOST, FTP_USER and FTP_PASS are all set
    ftp_domain,      \* FTP_DOMAIN
    files,           \* the local paths that exist on disk
    media_mb,        \* the size of the downloaded media, 0 before the download
    ftp_objects,     \* the object names stored on the FTP host
    video_path,      \* analyze(): the value download_video returned
    script_text,     \* analyze(): the value analyze_video_with_gemini returned
    ig_i,            \* download_video: index of the Instagram strategy to try
    last_error,      \* download_video: the last strategy's error
    avg_path,        \* analyze_video_with_gemini: video_path
    is_from_ftp,     \* analyze_video_with_gemini: is_from_ftp
    remote_filename, \* analyze_video_with_gemini: remote_filename
    uploaded_file,   \* analyze_video_with_gemini: uploaded_file is not None
    artifact,        \* the service's state of the uploaded artifact
    uploaded_mb,     \* the size of the file given to upload_file, 0 if none
    seen_active,     \* a status query returned ACTIVE
    waited,          \* analyze_video_with_gemini: waited
    model,           \* the model the request addresses
    attempt,         \* the generation loop's attempt
    retry_delay,     \* the generation loop's retry_delay
    waits,           \* the sleeps made between generation attempts
    rate_limited,    \* generation calls that failed with a rate-limit signal
    calls,           \* how often each collaborator was called
    delete_failed,   \* a genai.delete_file call raised
    rm_failed,       \* an os.remove call raised
    exc,             \* the exception propagating to analyze()'s handler
    response,        \* the HTTP response
    CHOSEN_MODEL,    \* the process-wide model name resolved at startup
    ftp_url,         \* download_video: what upload_video_to_ftp returned
    tried,           \* the Instagram strategies attempted, in order
    events,          \* the pipeline's events, in order of first occurrence
    service_text,    \* the text of the service's successful response
    gen_errors,      \* the errors of the failed generation calls, in order
    ftp_raised,      \* an FTP helper let an exception escape
    ftp_open,        \* FTP connections established and returned from without quit
    t_attempt,       \* api_translate: the retry loop's attempt
    t_retry_delay,   \* api_translate: the retry loop's retry_delay
    t_waits,         \* api_translate: the sleeps made between attempts
    t_calls,         \* api_translate: the generate_content calls made
    t_outcome,       \* api_translate: how the retry loop ended
    listed,          \* startup: what genai.list_models() yields, in order
    list_raises,     \* startup: genai.list_models() raises
    now,             \* int(time.time()), two requests: the current time-unit
    c_pc,            \* two requests: the position of each request
    c_temp,          \* two requests: temp_name of each request
    c_remote,        \* two requests: new_filename of each request's staging
    c_local,         \* two requests: video_path in analyze_video_with_gemini
    c_files,         \* two requests: who wrote each local file, 0 if absent
    c_ftp,           \* two requests: who stored each FTP object, 0 if absent
    c_touched,       \* two requests: a request used the other's local file
    m_failure,       \* error messages: the failure that ends the request
    m_exc,           \* error messages: the message of the exception raised
    m_body,          \* error messages: the error field of the response
    a_db,            \* accounts: the rows of User, the id of a row is its index
    a_log,           \* accounts: per user, is_blocked at creation and after each accepted block call
    a_response       \* accounts: the last request and its response

requestVars == <<pc, user, url, ftp_configured, ftp_domain, files, media_mb,
          ftp_objects, video_path, script_text, ig_i, last_error, avg_path,
          is_from_ftp, remote_filename, uploaded_file, artifact, uploaded_mb,
          seen_active, waited, model, attempt, retry_delay, waits,
          rate_limited, calls, delete_failed, rm_failed, exc, response,
          CHOSEN_MODEL, ftp_url, tried, events, service_text, gen_errors,
          ftp_raised, ftp_open>>

translateVars == <<t_attempt, t_retry_delay, t_waits, t_calls, t_outcome>>

startupVars == <<listed, list_raises>>

concVars == <<now, c_pc, c_temp, c_remote, c_local, c_files, c_ftp, c_touched>>

messageVars == <<m_failure, m_exc, m_body>>

accountVars == <<a_db, a_log, a_response>>

extraVars == <<messageVars, accountVars>>

\* The state of the other scenarios, which a single /analyze request leaves alone.
auxVars == <<translateVars, startupVars, concVars, extraVars>>

vars == <<requestVars, translateVars, startupVars, concVars, extraVars>>

\* The value get_best_model_name() gave CHOSEN_MODEL at startup.
StartupModel == "models/gemini-1.5-flash-001"

CallNames == {"ydl", "ftp_connect", "ftp_upload", "ftp_retr", "ftp_delete",
              "upload_file",
              "get_file", "GenerativeModel", "list_models",
              "generate_content", "delete_file"}

NoResponse == [status |-> 0, kind |-> "none", body |-> NoText]

\* The two concurrent requests, and the owner of a file nobody wrote.
Reqs == {"r1", "r2"}
NoOwner == "nobody"

\* The state of api_translate's retry loop before it is entered, of the
\* startup before models are listed, of the two requests before they start.
TranslateIdle ==
    /\ t_attempt = 0
    /\ t_retry_delay = 0
    /\ t_waits = <<>>
    /\ t_calls = 0
    /\ t_outcome = "idle"

StartupIdle ==
    /\ listed = <<>>
    /\ list_raises = FALSE

ConcIdle ==
    /\ now = 0
    /\ c_pc = [r \in Reqs |-> "idle"]
    /\ c_temp = [r \in Reqs |-> None]
    /\ c_remote = [r \in Reqs |-> None]
    /\ c_local = [r \in Reqs |-> None]
    /\ c_files = {}
    /\ c_ftp = {}
    /\ c_touched = FALSE

\* An error message: its fixed text and the number of characters of the
\* underlying diagnostic text it embeds.
NoMessage == [head |-> "none", excerpt |-> 0]
NoFailure == [site |-> "none", len |-> 0, marked |-> FALSE]

MessageIdle ==
    /\ m_failure = NoFailure
    /\ m_exc = NoMessage
    /\ m_body = NoMessage

\* The database after startup on an empty database: the default admin.
AdminRow == [username |-> "admin", is_admin |-> TRUE, is_blocked |-> FALSE]
NoRequest == [endpoint |-> "none", token |-> 0, blocked |-> FALSE,
              status |-> 0, service |-> FALSE]

AccountsIdle ==
    /\ a_db = <<AdminRow>>
    /\ a_log = <<<<FALSE>>>>
    /\ a_response = NoRequest

ExtraIdle == MessageIdle /\ AccountsIdle

Init ==
    /\ pc = "analyze"
    /\ user \in Users
    /\ url \in Urls
    /\ ftp_configured \in BOOLEAN
    /\ ftp_domain \in (IF ftp_configured THEN FtpDomains ELSE {FtpDomainUnset})
    /\ files = {}
    /\ media_mb = 0
    /\ ftp_objects = {}
    /\ video_path = Unbound
    /\ script_text = NoText
    /\ ig_i = 0
    /\ last_error = "None"
    /\ avg_path = Unbound
    /\ is_from_ftp = FALSE
    /\ remote_filename = "None"
    /\ uploaded_file = FALSE
    /\ artifact = "absent"
    /\ uploaded_mb = 0
    /\ seen_active = FALSE
    /\ waited = 0
    /\ model = "None"
    /\ attempt = 0
    /\ retry_delay = initial_retry_delay
    /\ waits = <<>>
    /\ rate_limited = 0
    /\ calls = [c \in CallNames |-> 0]
    /\ delete_failed = FALSE
    /\ rm_failed = FALSE
    /\ exc = NoException
    /\ response = NoResponse
    /\ CHOSEN_MODEL = StartupModel
    /\ ftp_url = Unbound
    /\ tried = <<>>
    /\ events = <<>>
    /\ service_text = NoText
    /\ gen_errors = <<>>
    /\ ftp_raised = FALSE
    /\ ftp_open = 0
    /\ TranslateIdle
    /\ StartupIdle
    /\ ConcIdle
    /\ ExtraIdle

Called(c) == [calls EXCEPT ![c] = @ + 1]

\* jsonify({"error": ...}), status
ErrorResponse(status, msg) == [status |-> status, kind |-> "error", body |-> msg]
\* jsonify({"script": script_text}), 200
ScriptResponse(text) == [status |-> 200, kind |-> "script", body |-> text]

\* The outcomes of "if os.path.exists(p): try: os.remove(p) except: pass":
\* the file is gone, or os.remove raised and the file is still there.
RemoveIfExists(fs, p) ==
    IF p \in fs
    THEN {[files |-> fs \ {p}, failed |-> FALSE], [files |-> fs, failed |-> TRUE]}
    ELSE {[files |-> fs, failed |-> FALSE]}

\* enumerate(methods): the strategy of iteration i, with the order reversed.
StrategyAtReversed(i) == methods[Len(methods) - i]

\* enumerate(methods): the strategy of iteration i (from 0).
StrategyAt(i) == methods[i + 1]

\* Whether an event is in the log, and the log with an event's first
\* occurrence recorded.
Seen(ev, e) == \E k \in DOMAIN ev : ev[k] = e
Log(ev, e) == IF Seen(ev, e) THEN ev ELSE Append(ev, e)

\* raise: control passes to the except clause of analyze().
Raise(kind) == pc' = "except" /\ exc' = kind

\* A blocked test that is never true.
IsBlockedNever(u) == FALSE

\* hasattr(user, 'is_blocked') and user.is_blocked
IsBlocked(u) == u = "blocked"

(***************************************************************************)
(* analyze(): authentication, the blocked check and the url check          *)
(***************************************************************************)
Analyze ==
    /\ pc = "analyze"
    /\ IF user = "anonymous"
       THEN /\ response' = ErrorResponse(401, "Vui long dang nhap lai")
            /\ pc' = "done"
       ELSE IF IsBlocked(user)
       THEN /\ response' = ErrorResponse(403, "Tai khoan da bi chan")
            /\ pc' = "done"
       ELSE IF url = NoUrl
       THEN /\ response' = ErrorResponse(400, "Thieu URL")
            /\ pc' = "done"
       ELSE /\ pc' = "download_video"
            /\ UNCHANGED response
    /\ UNCHANGED <<CHOSEN_MODEL, ftp_url, tried, events, service_text,
                   gen_errors, ftp_raised>>
    /\ UNCHANGED auxVars
    /\ UNCHANGED ftp_open
    /\ UNCHANGED <<user, url, ftp_configured, ftp_domain, files, media_mb,
                   ftp_objects, video_path, script_text, ig_i, last_error,
                   avg_path, is_from_ftp, remote_filename, uploaded_file,
                   artifact, uploaded_mb, seen_active, waited, model, attempt,
                   retry_delay, waits, rate_limited, calls, delete_failed,
                   rm_failed, exc>>

(***************************************************************************)
(* download_video(): the own-host check and the choice of the platform     *)
(***************************************************************************)
DownloadVideo ==
    /\ pc = "download_video"
    /\ IF IsOwnHost(url)
       THEN Raise("InvalidSource")
       ELSE /\ pc' = IF IsInstagram(url) THEN "instagram" ELSE "ydl"
            /\ UNCHANGED exc
    /\ UNCHANGED <<CHOSEN_MODEL, ftp_url, tried, events, service_text,
                   gen_errors, ftp_raised>>
    /\ UNCHANGED auxVars
    /\ UNCHANGED ftp_open
    /\ UNCHANGED <<user, url, ftp_configured, ftp_domain, files, media_mb,
                   ftp_objects, video_path, script_text, ig_i, last_error,
                   avg_path, is_from_ftp, remote_filename, uploaded_file,
                   artifact, uploaded_mb, seen_active, waited, model, attempt,
                   retry_delay, waits, rate_limited, calls, delete_failed,
                   rm_failed, response>>

(***************************************************************************)
(* download_video(): one strategy of the Instagram loop. The tool either   *)
(* succeeds (and normally writes the target file) or raises (and may leave *)
(* the target file behind).                                                *)
(***************************************************************************)
InstagramAttempt ==
    /\ pc = "instagram"
    /\ ig_i < Len(methods)
    /\ calls' = Called("ydl")
    /\ tried' = Append(tried, StrategyAt(ig_i))
    /\ \E ok \in BOOLEAN, written \in BOOLEAN, mb \in FileSizesMB :
         /\ files' = IF written THEN files \cup {temp_name} ELSE files
         /\ media_mb' = IF written THEN mb ELSE media_mb
         /\ IF ok
            THEN /\ video_path' = temp_name
                 /\ pc' = "analyze_video"
                 /\ events' = Log(events, "download_returned")
                 /\ UNCHANGED <<ig_i, last_error, exc>>
            ELSE /\ last_error' = StrategyAt(ig_i)
                 /\ ig_i' = ig_i + 1
                 /\ UNCHANGED <<video_path, events>>
                 /\ IF ig_i + 1 = Len(methods)
                    THEN Raise("DownloadFailed")
                    ELSE UNCHANGED <<pc, exc>>
    /\ UNCHANGED <<CHOSEN_MODEL, ftp_url, service_text, gen_errors, ftp_raised>>
    /\ UNCHANGED auxVars
    /\ UNCHANGED ftp_open
    /\ UNCHANGED <<user, url, ftp_configured, ftp_domain, ftp_objects,
                   script_text, avg_path, is_from_ftp, remote_filename,
                   uploaded_file, artifact, uploaded_mb, seen_active, waited,
                   model, attempt, retry_delay, waits, rate_limited,
                   delete_failed, rm_failed, response>>

(***************************************************************************)
(* The FTP helpers.  Each runs its whole body inside try/except Exception; *)
(* a run is described by the step that fails, "none" when no step does.    *)
(***************************************************************************)
FtpSteps == {"connect", "login", "cwd", "open", "transfer", "quit", "none"}

\* An except clause that would only catch the errors of connect and login.
CaughtOnlyAtLogin(step) == step \in {"connect", "login"}

\* except Exception: the failure of every step is caught.
CaughtByHelper(step) == step \in FtpSteps

\* if ftp_url: taken for every returned value.
IsReferenceAlways(ret) == TRUE

\* if ftp_url: a returned URL is a non-empty string, None is falsy.
IsReference(ret) == ret # None

\* A helper returns with its connection established and no quit issued when
\* a step between connect and quit failed: ftp.quit() is only on the path
\* without exception, and no clause closes the connection.
LeftOpen(step) == step \in {"login", "cwd", "open", "transfer"}

(***************************************************************************)
(* upload_video_to_ftp(): what it returns, whether the object was stored   *)
(* and whether a connection was opened. Without credentials it returns     *)
(* None at once; otherwise it stores the object and returns its public     *)
(* URL, or fails (before or after the object was stored) and returns None. *)
(***************************************************************************)
UploadVideoToFtp ==
    IF ~ftp_configured
    THEN {[ret |-> None, stored |-> FALSE, connected |-> FALSE,
           raised |-> FALSE, left_open |-> FALSE]}
    ELSE {[ret |-> IF step = "none" THEN PublicUrl(ftp_domain) ELSE None,
           stored |-> step \in {"quit", "none"},
           connected |-> TRUE,
           left_open |-> LeftOpen(step),
           raised |-> step # "none" /\ ~CaughtByHelper(step)] :
             step \in FtpSteps}

\* A removal that leaves the file in place.
RemoveLocalNoop(fs, p) == fs

\* os.remove(temp_name), when it does not raise
RemoveLocal(fs, p) == fs \ {p}

(***************************************************************************)
(* download_video(): the single strategy of the other platforms, staging   *)
(* to FTP and the removal of the local file once it is staged              *)
(***************************************************************************)
DefaultDownload ==
    /\ pc = "ydl"
    /\ \E ok \in BOOLEAN, written \in BOOLEAN, mb \in FileSizesMB,
          ftp \in UploadVideoToFtp, rm1_ok \in BOOLEAN :
         LET fs1 == IF written THEN files \cup {temp_name} ELSE files
             staged == ok /\ written
             ref == staged /\ ~ftp.raised /\ IsReference(ftp.ret)
             fs2 == IF ref /\ rm1_ok THEN RemoveLocal(fs1, temp_name) ELSE fs1
             \* an exception inside the try: the tool's, one the helper let
             \* escape, or os.remove's
             raised == ~ok \/ (staged /\ ftp.raised) \/ (ref /\ ~rm1_ok)
         IN /\ media_mb' = IF written THEN mb ELSE media_mb
            /\ calls' = [calls EXCEPT
                  !["ydl"] = @ + 1,
                  !["ftp_connect"] = IF staged /\ ftp.connected THEN @ + 1 ELSE @,
                  !["ftp_upload"] = IF staged /\ ftp.connected THEN @ + 1 ELSE @]
            /\ ftp_objects' = IF staged /\ ftp.stored
                              THEN ftp_objects \cup {new_filename}
                              ELSE ftp_objects
            /\ ftp_url' = IF staged /\ ~ftp.raised THEN ftp.ret ELSE ftp_url
            /\ ftp_raised' = (ftp_raised \/ (staged /\ ftp.raised))
            /\ ftp_open' = IF staged /\ ftp.left_open THEN ftp_open + 1
                           ELSE ftp_open
            /\ IF raised
               THEN \E r \in RemoveIfExists(fs2, temp_name) :
                      /\ files' = r.files
                      /\ rm_failed' = (rm_failed \/ r.failed \/ (ref /\ ~rm1_ok))
                      /\ UNCHANGED <<video_path, events>>
                      /\ Raise("DownloadFailed")
               ELSE /\ files' = fs2
                    /\ video_path' = IF ref THEN ftp.ret ELSE temp_name
                    /\ events' = Log(events, "download_returned")
                    /\ pc' = "analyze_video"
                    /\ UNCHANGED <<rm_failed, exc>>
    /\ UNCHANGED <<CHOSEN_MODEL, tried, service_text, gen_errors>>
    /\ UNCHANGED auxVars
    /\ UNCHANGED <<user, url, ftp_configured, ftp_domain, script_text, ig_i,
                   last_error, avg_path, is_from_ftp, remote_filename,
                   uploaded_file, artifact, uploaded_mb, seen_active, waited,
                   model, attempt, retry_delay, waits, rate_limited,
                   delete_failed, response>>

(***************************************************************************)
(* download_from_ftp(): its result, whether the local file was opened for  *)
(* writing (and so created) and whether a connection was opened            *)
(***************************************************************************)
DownloadFromFtp(name) ==
    IF ~ftp_configured
    THEN {[ret |-> FALSE, opened |-> FALSE, connected |-> FALSE,
           raised |-> FALSE, left_open |-> FALSE]}
    ELSE {[ret |-> step = "none",
           opened |-> step \in {"transfer", "quit", "none"},
           connected |-> TRUE,
           left_open |-> LeftOpen(step),
           raised |-> step # "none" /\ ~CaughtByHelper(step)] :
             step \in (FtpSteps \ {"cwd"})
                        \ (IF name \in ftp_objects THEN {} ELSE {"quit", "none"})}

(***************************************************************************)
(* analyze_video_with_gemini(): re-localizing a staged file, and the size  *)
(* query on the local file                                                 *)
(***************************************************************************)
AnalyzeVideoStart ==
    /\ pc = "analyze_video"
    /\ IF StartsWithHttp(video_path)
       THEN \E d \in DownloadFromFtp(Basename(video_path)) :
              /\ remote_filename' = Basename(video_path)
              /\ avg_path' = TempPathFor(Basename(video_path))
              /\ files' = IF d.opened
                          THEN files \cup {TempPathFor(Basename(video_path))}
                          ELSE files
              /\ calls' = IF d.connected
                          THEN [calls EXCEPT !["ftp_connect"] = @ + 1,
                                             !["ftp_retr"] = @ + 1]
                          ELSE calls
              /\ is_from_ftp' = (d.ret /\ ~d.raised)
              /\ ftp_raised' = (ftp_raised \/ d.raised)
              /\ ftp_open' = IF d.left_open THEN ftp_open + 1 ELSE ftp_open
              /\ IF d.raised
                 THEN Raise("FtpError")
                 ELSE IF d.ret
                      THEN pc' = "upload_file" /\ UNCHANGED exc
                      ELSE Raise("RetrievalFailed")
       ELSE /\ avg_path' = video_path
            /\ UNCHANGED <<remote_filename, files, calls, is_from_ftp,
                           ftp_raised, ftp_open>>
            \* os.path.getsize(video_path)
            /\ IF video_path \in files
               THEN pc' = "upload_file" /\ UNCHANGED exc
               ELSE Raise("FileNotFoundError")
    /\ UNCHANGED <<CHOSEN_MODEL, ftp_url, tried, events, service_text,
                   gen_errors>>
    /\ UNCHANGED auxVars
    /\ UNCHANGED <<user, url, ftp_configured, ftp_domain, media_mb,
                   ftp_objects, video_path, script_text, ig_i, last_error,
                   uploaded_file, artifact, uploaded_mb, seen_active, waited,
                   model, attempt, retry_delay, waits, rate_limited,
                   delete_failed, rm_failed, response>>

(***************************************************************************)
(* genai.upload_file and the removal of the local file right after it;     *)
(* an exception goes through the except clause of the submission phase     *)
(***************************************************************************)
UploadFile ==
    /\ pc = "upload_file"
    /\ calls' = Called("upload_file")
    /\ events' = Log(events, "upload_file")
    /\ \E ok \in BOOLEAN, r \in RemoveIfExists(files, avg_path) :
         /\ files' = r.files
         /\ rm_failed' = (rm_failed \/ r.failed)
         /\ IF ok
            THEN /\ uploaded_file' = TRUE
                 /\ artifact' = "PROCESSING"
                 /\ uploaded_mb' = media_mb
                 /\ waited' = 0
                 /\ pc' = "poll"
                 /\ UNCHANGED exc
            ELSE /\ UNCHANGED <<uploaded_file, artifact, uploaded_mb, waited>>
                 /\ Raise("UploadError")
    /\ UNCHANGED <<CHOSEN_MODEL, ftp_url, tried, service_text, gen_errors,
                   ftp_raised>>
    /\ UNCHANGED auxVars
    /\ UNCHANGED ftp_open
    /\ UNCHANGED <<user, url, ftp_configured, ftp_domain, media_mb,
                   ftp_objects, video_path, script_text, ig_i, last_error,
                   avg_path, is_from_ftp, remote_filename, seen_active, model,
                   attempt, retry_delay, waits, rate_limited, delete_failed,
                   response>>

(***************************************************************************)
(* The tests of the polling loop, and the answers of the service: it may   *)
(* leave PROCESSING within the first EarlyPolls or the last LatePolls      *)
(* queries of the window.                                                  *)
(***************************************************************************)
EarlyPolls == 1
LatePolls == 1

StatusAnswers(w) ==
    IF w < EarlyPolls * poll_interval \/ w >= max_wait - LatePolls * poll_interval
    THEN {"PROCESSING", "ACTIVE", "FAILED", "raise"}
    ELSE {"PROCESSING"}

\* The loop condition with <= in place of <.
PollContinuesInclusive(w) == w <= max_wait

\* while waited < max_wait
PollContinues(w) == w < max_wait

\* if waited >= max_wait, after the loop
TimedOut(w) == w >= max_wait

\* A test that takes every state for ACTIVE.
IsActiveAny(st) == TRUE

\* if file.state.name == "ACTIVE"
IsActive(st) == st = "ACTIVE"

\* A test that never recognises FAILED.
IsFailedNever(st) == FALSE

\* if file.state.name == "FAILED"
IsFailed(st) == st = "FAILED"

(***************************************************************************)
(* One iteration of the polling loop: a status query, then ACTIVE leaves   *)
(* the loop, FAILED or an exception of the query goes to the except        *)
(* clause, anything else sleeps and counts.                                *)
(***************************************************************************)
PollQuery ==
    /\ pc = "poll"
    /\ PollContinues(waited)
    /\ calls' = Called("get_file")
    /\ \E st \in StatusAnswers(waited) :
         IF st = "raise"
         THEN \E r \in RemoveIfExists(files, avg_path) :
                /\ files' = r.files
                /\ rm_failed' = (rm_failed \/ r.failed)
                /\ UNCHANGED <<waited, artifact, seen_active, events>>
                /\ Raise("StatusQueryError")
         ELSE /\ artifact' = st
              /\ seen_active' = (seen_active \/ st = "ACTIVE")
              /\ events' = IF st = "ACTIVE" THEN Log(events, "ACTIVE")
                           ELSE events
              /\ IF IsActive(st)
                 THEN \E r \in RemoveIfExists(files, avg_path) :
                        /\ files' = r.files
                        /\ rm_failed' = (rm_failed \/ r.failed)
                        /\ UNCHANGED waited
                        \* break, then the test after the loop
                        /\ IF TimedOut(waited)
                           THEN Raise("ProcessingTimeout")
                           ELSE pc' = "GenerativeModel" /\ UNCHANGED exc
                 ELSE IF IsFailed(st)
                 THEN \E r \in RemoveIfExists(files, avg_path) :
                        /\ files' = r.files
                        /\ rm_failed' = (rm_failed \/ r.failed)
                        /\ UNCHANGED waited
                        /\ Raise("RejectedByService")
                 ELSE /\ waited' = waited + poll_interval
                      /\ UNCHANGED <<pc, exc, files, rm_failed>>
    /\ UNCHANGED <<CHOSEN_MODEL, ftp_url, tried, service_text, gen_errors,
                   ftp_raised>>
    /\ UNCHANGED auxVars
    /\ UNCHANGED ftp_open
    /\ UNCHANGED <<user, url, ftp_configured, ftp_domain, media_mb,
                   ftp_objects, video_path, script_text, ig_i, last_error,
                   avg_path, is_from_ftp, remote_filename, uploaded_file,
                   uploaded_mb, model, attempt, retry_delay, waits,
                   rate_limited, delete_failed, response>>

(***************************************************************************)
(* The polling loop's exit by its condition: the timeout                   *)
(***************************************************************************)
PollExit ==
    /\ pc = "poll"
    /\ ~PollContinues(waited)
    /\ IF TimedOut(waited)
       THEN \E r \in RemoveIfExists(files, avg_path) :
              /\ files' = r.files
              /\ rm_failed' = (rm_failed \/ r.failed)
              /\ Raise("ProcessingTimeout")
       ELSE /\ pc' = "GenerativeModel"
            /\ UNCHANGED <<files, rm_failed, exc>>
    /\ UNCHANGED <<CHOSEN_MODEL, ftp_url, tried, events, service_text,
                   gen_errors, ftp_raised>>
    /\ UNCHANGED auxVars
    /\ UNCHANGED ftp_open
    /\ UNCHANGED <<user, url, ftp_configured, ftp_domain, media_mb,
                   ftp_objects, video_path, script_text, ig_i, last_error,
                   avg_path, is_from_ftp, remote_filename, uploaded_file,
                   artifact, uploaded_mb, seen_active, waited, model, attempt,
                   retry_delay, waits, rate_limited, calls, delete_failed,
                   response>>

\* available_models[0]: the substitute found by listing the models.
fallback_model == "models/gemini-pro"

\* A substitution that would also store the substitute in the global.
SharedSlotOverwritten(chosen, substitute) == substitute

\* The global after a substitution: the substitute is bound to the locals
\* fallback_model and model only, there is no global statement.
SharedSlotAfter(chosen, substitute) == chosen

(***************************************************************************)
(* genai.GenerativeModel(CHOSEN_MODEL), and on a not-found error the       *)
(* search for a substitute. Every raise here is outside any try/finally.   *)
(***************************************************************************)
ModelConstruct ==
    /\ pc = "GenerativeModel"
    /\ \E outcome \in {"ok", "not_found", "other"},
          listing \in {"raise", "empty", "some"}, ok2 \in BOOLEAN :
         IF outcome = "ok"
         THEN /\ model' = CHOSEN_MODEL
              /\ calls' = Called("GenerativeModel")
              /\ pc' = "generate"
              /\ UNCHANGED <<exc, CHOSEN_MODEL>>
         ELSE IF outcome = "other"
         THEN /\ calls' = Called("GenerativeModel")
              /\ UNCHANGED <<model, CHOSEN_MODEL>>
              /\ Raise("ModelError")
         ELSE IF listing = "some"
         THEN /\ calls' = [calls EXCEPT !["GenerativeModel"] = @ + 2,
                                        !["list_models"] = @ + 1]
              /\ CHOSEN_MODEL' = SharedSlotAfter(CHOSEN_MODEL, fallback_model)
              /\ IF ok2
                 THEN /\ model' = fallback_model
                      /\ pc' = "generate"
                      /\ UNCHANGED exc
                 ELSE /\ UNCHANGED model
                      /\ Raise("ModelError")
         ELSE /\ calls' = [calls EXCEPT !["GenerativeModel"] = @ + 1,
                                        !["list_models"] = @ + 1]
              /\ UNCHANGED <<model, CHOSEN_MODEL>>
              /\ Raise("ModelError")
    /\ UNCHANGED <<ftp_url, tried, events, service_text, gen_errors,
                   ftp_raised>>
    /\ UNCHANGED auxVars
    /\ UNCHANGED ftp_open
    /\ UNCHANGED <<user, url, ftp_configured, ftp_domain, files, media_mb,
                   ftp_objects, video_path, script_text, ig_i, last_error,
                   avg_path, is_from_ftp, remote_filename, uploaded_file,
                   artifact, uploaded_mb, seen_active, waited, attempt,
                   retry_delay, waits, rate_limited, delete_failed, rm_failed,
                   response>>

(***************************************************************************)
(* delete_from_ftp(): whether the object was deleted                       *)
(***************************************************************************)
DeleteFromFtp ==
    IF ~ftp_configured
    THEN {[ret |-> FALSE, deleted |-> FALSE, connected |-> FALSE,
           raised |-> FALSE, left_open |-> FALSE]}
    ELSE {[ret |-> step = "none",
           deleted |-> step \in {"quit", "none"},
           connected |-> TRUE,
           left_open |-> LeftOpen(step),
           raised |-> step # "none" /\ ~CaughtByHelper(step)] :
             step \in (FtpSteps \ {"cwd", "open"})}

(***************************************************************************)
(* The finally clause of the generation phase, entered with uploaded_file  *)
(* still set (uf) or already cleared, and the artifact in state art:       *)
(* delete the remote artifact if uploaded_file is set; for a re-localized  *)
(* file remove the local copy and delete the staged object.                *)
(***************************************************************************)
Finally(uf, art) ==
    {[artifact |-> IF uf /\ dok THEN "deleted" ELSE art,
      delete_calls |-> IF uf THEN 1 ELSE 0,
      delete_failed |-> uf /\ ~dok,
      files |-> r.files,
      rm_failed |-> r.failed,
      ftp_objects |-> IF is_from_ftp /\ fd.deleted
                      THEN ftp_objects \ {remote_filename} ELSE ftp_objects,
      ftp_delete_calls |-> IF is_from_ftp THEN 1 ELSE 0,
      ftp_connects |-> IF is_from_ftp /\ fd.connected THEN 1 ELSE 0,
      ftp_raised |-> is_from_ftp /\ fd.raised,
      ftp_left_open |-> IF is_from_ftp /\ fd.left_open THEN 1 ELSE 0] :
        dok \in BOOLEAN, fd \in DeleteFromFtp,
        r \in (IF is_from_ftp THEN RemoveIfExists(files, avg_path)
               ELSE {[files |-> files, failed |-> FALSE]})}

\* The effects of the generation phase's exit: generation calls made now
\* (gen), delete_file calls made before the finally clause (del, of which
\* delfail raised), then the finally clause's outcome f.
LeaveGeneration(f, gen, del, delfail) ==
    /\ artifact' = f.artifact
    /\ uploaded_file' = (f.artifact # "deleted")
    /\ files' = f.files
    /\ ftp_objects' = f.ftp_objects
    /\ rm_failed' = (rm_failed \/ f.rm_failed)
    /\ delete_failed' = (delete_failed \/ delfail \/ f.delete_failed)
    /\ ftp_raised' = (ftp_raised \/ f.ftp_raised)
    /\ ftp_open' = ftp_open + f.ftp_left_open
    /\ calls' = [calls EXCEPT !["generate_content"] = @ + gen,
                              !["delete_file"] = @ + del + f.delete_calls,
                              !["ftp_delete"] = @ + f.ftp_delete_calls,
                              !["ftp_connect"] = @ + f.ftp_connects]
    /\ events' = LET e1 == IF gen > 0 THEN Log(events, "generate_content")
                           ELSE events
                 IN IF del + f.delete_calls > 0 THEN Log(e1, "delete_file")
                    ELSE e1

\* The result as the response's text whatever it is.
ResultVerbatim(text) == text

\* result = response.text if response.text else <placeholder>
ResultOf(text) == IF text # "" THEN text ELSE Placeholder

\* uploaded_file left set whether or not the deletion succeeded.
StillSetAlways(uf, dok) == uf

\* uploaded_file after the deletion that follows the result: it is set to
\* None only when genai.delete_file did not raise.
StillSet(uf, dok) == uf /\ ~dok

(***************************************************************************)
(* A generation call that succeeds: the result, the deletion of the remote *)
(* artifact right away, the finally clause, the return                     *)
(***************************************************************************)
GenerateSuccess ==
    /\ pc = "generate"
    /\ attempt < max_retries
    /\ \E text \in ResponseTexts, dok1 \in BOOLEAN :
         \E f \in Finally(StillSet(uploaded_file, dok1),
                          IF uploaded_file /\ dok1 THEN "deleted" ELSE artifact) :
           /\ service_text' = text
           /\ script_text' = ResultOf(text)
           /\ LeaveGeneration(f, 1, IF uploaded_file THEN 1 ELSE 0,
                              uploaded_file /\ ~dok1)
           /\ pc' = "after_analysis"
    /\ UNCHANGED <<CHOSEN_MODEL, ftp_url, tried, gen_errors>>
    /\ UNCHANGED auxVars
    /\ UNCHANGED <<user, url, ftp_configured, ftp_domain, media_mb,
                   video_path, ig_i, last_error, avg_path, is_from_ftp,
                   remote_filename, uploaded_mb, seen_active, waited, model,
                   attempt, retry_delay, waits, rate_limited, exc, response>>

(***************************************************************************)
(* A generation call that fails with a rate-limit signal: wait and retry,  *)
(* or, on the last attempt, raise the quota error through the finally      *)
(* clause                                                                  *)
(***************************************************************************)
GenerateRateLimited ==
    /\ pc = "generate"
    /\ attempt < max_retries
    /\ \E e \in GenErrors :
         /\ IsRateLimit(e)
         /\ rate_limited' = rate_limited + 1
         /\ gen_errors' = Append(gen_errors, e)
         /\ IF ~IsLastAttempt(attempt)
            THEN /\ waits' = Append(waits, NextWait(e, retry_delay))
                 /\ retry_delay' = Backoff(NextWait(e, retry_delay))
                 /\ attempt' = attempt + 1
                 /\ IF attempt + 1 < max_retries
                    THEN /\ calls' = Called("generate_content")
                         /\ events' = Log(events, "generate_content")
                         /\ UNCHANGED <<pc, exc, script_text, artifact,
                                        uploaded_file, files, ftp_objects,
                                        rm_failed, delete_failed, ftp_raised,
                                        ftp_open>>
                    ELSE \* the loop ends without a return
                         \E f \in Finally(uploaded_file, artifact) :
                           /\ LeaveGeneration(f, 1, 0, FALSE)
                           /\ script_text' = Placeholder
                           /\ pc' = "after_analysis"
                           /\ UNCHANGED exc
            ELSE \E f \in Finally(uploaded_file, artifact) :
                   /\ LeaveGeneration(f, 1, 0, FALSE)
                   /\ Raise("RateLimited")
                   /\ UNCHANGED <<waits, retry_delay, attempt, script_text>>
    /\ UNCHANGED <<CHOSEN_MODEL, ftp_url, tried, service_text>>
    /\ UNCHANGED auxVars
    /\ UNCHANGED <<user, url, ftp_configured, ftp_domain, media_mb,
                   video_path, ig_i, last_error, avg_path, is_from_ftp,
                   remote_filename, uploaded_mb, seen_active, waited, model,
                   response>>

(***************************************************************************)
(* A generation call that fails with any other error: it propagates        *)
(* through the finally clause                                              *)
(***************************************************************************)
GenerateError ==
    /\ pc = "generate"
    /\ attempt < max_retries
    /\ \E e \in GenErrors, f \in Finally(uploaded_file, artifact) :
         /\ ~IsRateLimit(e)
         /\ gen_errors' = Append(gen_errors, e)
         /\ LeaveGeneration(f, 1, 0, FALSE)
         /\ Raise("ServiceUnavailable")
    /\ UNCHANGED <<CHOSEN_MODEL, ftp_url, tried, service_text>>
    /\ UNCHANGED auxVars
    /\ UNCHANGED <<user, url, ftp_configured, ftp_domain, media_mb,
                   video_path, script_text, ig_i, last_error, avg_path,
                   is_from_ftp, remote_filename, uploaded_mb, seen_active,
                   waited, model, attempt, retry_delay, waits, rate_limited,
                   response>>

(***************************************************************************)
(* analyze() after analyze_video_with_gemini returned: the final cleanup   *)
(* reads the name video_path_or_url, then the script is returned           *)
(***************************************************************************)
AfterAnalysis ==
    /\ pc = "after_analysis"
    /\ IF "video_path_or_url" \in AnalyzeNames
       THEN \E r \in (IF StartsWithHttp(video_path)
                      THEN {[files |-> files, failed |-> FALSE]}
                      ELSE RemoveIfExists(files, video_path)) :
              /\ files' = r.files
              /\ rm_failed' = (rm_failed \/ r.failed)
              /\ response' = ScriptResponse(script_text)
              /\ pc' = "done"
              /\ UNCHANGED exc
       ELSE /\ Raise("NameError")
            /\ UNCHANGED <<files, rm_failed, response>>
    /\ UNCHANGED <<CHOSEN_MODEL, ftp_url, tried, events, service_text,
                   gen_errors, ftp_raised>>
    /\ UNCHANGED auxVars
    /\ UNCHANGED ftp_open
    /\ UNCHANGED <<user, url, ftp_configured, ftp_domain, media_mb,
                   ftp_objects, video_path, script_text, ig_i, last_error,
                   avg_path, is_from_ftp, remote_filename, uploaded_file,
                   artifact, uploaded_mb, seen_active, waited, model, attempt,
                   retry_delay, waits, rate_limited, calls, delete_failed>>

\* An except clause for RuntimeError only.
CaughtIfRuntimeError(kind) == kind \notin {"NameError", "FileNotFoundError"}

\* except Exception as e: every exception of the pipeline is caught.
CaughtByAnalyze(kind) == TRUE

\* What the client gets when an exception leaves the handler.
UnhandledResponse(kind) == [status |-> 500, kind |-> "unhandled", body |-> kind]

(***************************************************************************)
(* The except clause of analyze(): remove the file video_path names, if    *)
(* video_path is bound and the file exists, and answer 500                 *)
(***************************************************************************)
AnalyzeExcept ==
    /\ pc = "except"
    /\ \E r \in (IF video_path # Unbound
                  THEN RemoveIfExists(files, video_path)
                  ELSE {[files |-> files, failed |-> FALSE]}) :
         /\ files' = r.files
         /\ rm_failed' = (rm_failed \/ r.failed)
    /\ response' = IF CaughtByAnalyze(exc) THEN ErrorResponse(500, exc)
                   ELSE UnhandledResponse(exc)
    /\ pc' = "done"
    /\ UNCHANGED <<CHOSEN_MODEL, ftp_url, tried, events, service_text,
                   gen_errors, ftp_raised>>
    /\ UNCHANGED auxVars
    /\ UNCHANGED ftp_open
    /\ UNCHANGED <<user, url, ftp_configured, ftp_domain, media_mb,
                   ftp_objects, video_path, script_text, ig_i, last_error,
                   avg_path, is_from_ftp, remote_filename, uploaded_file,
                   artifact, uploaded_mb, seen_active, waited, model, attempt,
                   retry_delay, waits, rate_limited, calls, delete_failed, exc>>

Next ==
    \/ Analyze
    \/ DownloadVideo
    \/ InstagramAttempt
    \/ DefaultDownload
    \/ AnalyzeVideoStart
    \/ UploadFile
    \/ PollQuery
    \/ PollExit
    \/ ModelConstruct
    \/ GenerateSuccess
    \/ GenerateRateLimited
    \/ GenerateError
    \/ AfterAnalysis
    \/ AnalyzeExcept

Spec == Init /\ [][Next]_vars

(***************************************************************************)
(* api_translate(): the retry loop around generate_content, run against    *)
(* the responses the service gave to the generation loop of /analyze: the  *)
(* k-th call of the one gets the response of the k-th call of the other.   *)
(* The tests of the error text and the computation of the wait are the     *)
(* same expressions as in analyze_video_with_gemini.                       *)
(***************************************************************************)
\* The loop of api_translate with the last attempt tested one attempt early.
TranslateLastAttemptEarly(a) == ~(a < translate_max_retries - 2)

\* not (attempt < max_retries - 1), in api_translate
TranslateLastAttempt(a) == ~(a < translate_max_retries - 1)

\* The service has a k-th response: an error, or the text after the errors.
HasResponse(k) ==
    \/ k <= Len(gen_errors)
    \/ (k = Len(gen_errors) + 1 /\ service_text # NoText)

TranslateSuccess ==
    /\ t_outcome = "running"
    /\ t_attempt < translate_max_retries
    /\ HasResponse(t_calls + 1)
    /\ t_calls + 1 > Len(gen_errors)
    /\ t_calls' = t_calls + 1
    /\ t_outcome' = "success"
    /\ UNCHANGED <<t_attempt, t_retry_delay, t_waits>>
    /\ UNCHANGED <<requestVars, startupVars, concVars, extraVars>>

TranslateRateLimited ==
    /\ t_outcome = "running"
    /\ t_attempt < translate_max_retries
    /\ HasResponse(t_calls + 1)
    /\ t_calls + 1 <= Len(gen_errors)
    /\ LET e == gen_errors[t_calls + 1]
       IN /\ IsRateLimit(e)
          /\ t_calls' = t_calls + 1
          /\ IF ~TranslateLastAttempt(t_attempt)
             THEN /\ t_waits' = Append(t_waits, NextWait(e, t_retry_delay))
                  /\ t_retry_delay' = Backoff(NextWait(e, t_retry_delay))
                  /\ t_attempt' = t_attempt + 1
                  \* the loop may end without break: translated_text is unbound
                  /\ t_outcome' = IF t_attempt + 1 < translate_max_retries
                                  THEN "running" ELSE "UnboundLocalError"
             ELSE /\ t_outcome' = "RateLimited"
                  /\ UNCHANGED <<t_attempt, t_retry_delay, t_waits>>
    /\ UNCHANGED <<requestVars, startupVars, concVars, extraVars>>

TranslateError ==
    /\ t_outcome = "running"
    /\ t_attempt < translate_max_retries
    /\ HasResponse(t_calls + 1)
    /\ t_calls + 1 <= Len(gen_errors)
    /\ ~IsRateLimit(gen_errors[t_calls + 1])
    /\ t_calls' = t_calls + 1
    /\ t_outcome' = "propagated"
    /\ UNCHANGED <<t_attempt, t_retry_delay, t_waits>>
    /\ UNCHANGED <<requestVars, startupVars, concVars, extraVars>>

\* A request of /analyze that enters its generation loop (not staged, the
\* artifact ACTIVE at the first status query), and api_translate entering
\* its retry loop.
InitRetry ==
    /\ pc = "generate"
    /\ user = "ok"
    /\ url = UrlTikTok
    /\ ftp_configured = FALSE
    /\ ftp_domain = FtpDomainUnset
    /\ files = {}
    /\ media_mb \in FileSizesMB
    /\ ftp_objects = {}
    /\ video_path = temp_name
    /\ script_text = NoText
    /\ ig_i = 0
    /\ last_error = "None"
    /\ avg_path = temp_name
    /\ is_from_ftp = FALSE
    /\ remote_filename = "None"
    /\ uploaded_file = TRUE
    /\ artifact = "ACTIVE"
    /\ uploaded_mb = media_mb
    /\ seen_active = TRUE
    /\ waited = 0
    /\ model = StartupModel
    /\ attempt = 0
    /\ retry_delay = initial_retry_delay
    /\ waits = <<>>
    /\ rate_limited = 0
    /\ calls = [c \in CallNames |->
                  IF c \in {"ydl", "upload_file", "get_file", "GenerativeModel"}
                  THEN 1 ELSE 0]
    /\ delete_failed = FALSE
    /\ rm_failed = FALSE
    /\ exc = NoException
    /\ response = NoResponse
    /\ CHOSEN_MODEL = StartupModel
    /\ ftp_url = None
    /\ tried = <<>>
    /\ events = <<"download_returned", "upload_file", "ACTIVE">>
    /\ service_text = NoText
    /\ gen_errors = <<>>
    /\ ftp_raised = FALSE
    /\ ftp_open = 0
    /\ t_attempt = 0
    /\ t_retry_delay = translate_retry_delay
    /\ t_waits = <<>>
    /\ t_calls = 0
    /\ t_outcome = "running"
    /\ StartupIdle
    /\ ConcIdle
    /\ ExtraIdle

NextRetry ==
    \/ GenerateSuccess
    \/ GenerateRateLimited
    \/ GenerateError
    \/ TranslateSuccess
    \/ TranslateRateLimited
    \/ TranslateError

SpecRetry == InitRetry /\ [][NextRetry]_vars

(***************************************************************************)
(* Startup: get_best_model_name().  A model name is a string; the tests    *)
(* "p in m" and m.lower() are tables over the names the service may list   *)
(* and the patterns the function looks for.                                *)
(***************************************************************************)
ModelNames == {"models/gemini-1.5-flash-002", "models/gemini-1.5-flash-latest", 
               "models/gemini-1.5-pro-001", "models/gemini-1.5-pro-003", 
               "models/gemini-pro", "models/gemini-2.5-flash", 
               "models/gemma-7b", "models/gemini-1.0-ultra", 
               "models/embedding-001", "models/Gemini-Exp-1206"}

\* The hardcoded name returned at the end of the function.
default_model == "models/gemini-1.5-flash-001"

\* 'generateContent' in m.supported_generation_methods
SupportsGenerateContent(m) == m # "models/embedding-001"

\* m.lower()
LowerName(m) ==
    CASE m = "models/Gemini-Exp-1206" -> "models/gemini-exp-1206"
      [] OTHER -> m

\* The patterns of the function that occur in the string m.
NamePatternsIn(m) ==
    CASE m = "models/gemini-1.5-flash-002" ->
           {"gemini", "gemini-1.5-flash", "gemini-1.5-flash-002"}
      [] m = "models/gemini-1.5-flash-latest" ->
           {"gemini", "latest", "gemini-1.5-flash", "gemini-1.5-flash-latest"}
      [] m = "models/gemini-1.5-pro-001" ->
           {"gemini", "gemini-1.5-pro"}
      [] m = "models/gemini-1.5-pro-003" ->
           {"gemini", "gemini-1.5-pro", "3"}
      [] m = "models/gemini-pro" ->
           {"gemini", "gemini-pro"}
      [] m = "models/gemini-2.5-flash" ->
           {"gemini", "2.5"}
      [] m = "models/gemma-7b" ->
           {"gemma"}
      [] m = "models/gemini-1.0-ultra" ->
           {"gemini"}
      [] m = "models/embedding-001" ->
           {}
      [] m = "models/Gemini-Exp-1206" ->
           {}
      [] m = "models/gemini-exp-1206" ->
           {"gemini", "exp"}
      [] m = "models/gemini-1.5-flash-001" ->
           {"gemini", "gemini-1.5-flash", "gemini-1.5-flash-001"}

\* p in m
InName(p, m) == p \in NamePatternsIn(m)

excluded_keywords == <<"gemma", "2.5", "2.0", "exp", "latest", "preview", "3-pro">>

flash_variants == <<"gemini-1.5-flash", "gemini-1.5-flash-001",
                    "gemini-1.5-flash-002", "gemini-1.5-flash-latest">>

\* "gemini" in m_lower and "gemma" not in m_lower
IsGeminiName(m) ==
    InName("gemini", LowerName(m)) /\ ~InName("gemma", LowerName(m))

\* keyword in m_lower or keyword in m, for some excluded keyword
ShouldExclude(m) ==
    \E k \in DOMAIN excluded_keywords :
        \/ InName(excluded_keywords[k], LowerName(m))
        \/ InName(excluded_keywords[k], m)

KeptName(m) == IsGeminiName(m) /\ ~ShouldExclude(m)

\* "gemini-1.5-pro" in m.lower() and "3" not in m
IsPro15(m) == InName("gemini-1.5-pro", LowerName(m)) /\ ~InName("3", m)

\* "gemini-pro" in m_lower and "2.5" not in m and "latest" not in m_lower
\* and "3" not in m
IsGeminiPro(m) ==
    /\ InName("gemini-pro", LowerName(m))
    /\ ~InName("2.5", m)
    /\ ~InName("latest", LowerName(m))
    /\ ~InName("3", m)

\* The models of a list, in order, for which "variant in m.lower()".
OfVariant(ms, v) ==
    SelectSeq(ms, LAMBDA m : InName(flash_variants[v], LowerName(m)))

\* The function's result for what list_models() yields.
get_best_model_name(ms, raises) ==
    IF raises THEN default_model
    ELSE
    LET available_models == SelectSeq(ms, SupportsGenerateContent)
        gemini_models == SelectSeq(available_models, KeptName)
        any_gemini == SelectSeq(available_models, IsGeminiName)
        variants == {v \in DOMAIN flash_variants : OfVariant(gemini_models, v) # <<>>}
        pro15 == SelectSeq(gemini_models, IsPro15)
        pro == SelectSeq(gemini_models, IsGeminiPro)
    IN IF gemini_models = <<>> /\ any_gemini # <<>> THEN any_gemini[1]
       ELSE IF variants # {}
       THEN OfVariant(gemini_models,
                      CHOOSE v \in variants : \A w \in variants : v <= w)[1]
       ELSE IF pro15 # <<>> THEN pro15[1]
       ELSE IF pro # <<>> THEN pro[1]
       ELSE IF gemini_models # <<>> THEN gemini_models[1]
       ELSE default_model

\* The lists of distinct model names of length at most MaxListed.
MaxListed == 3

Listings ==
    {ms \in UNION {[1..n -> ModelNames] : n \in 0..MaxListed} :
        \A i, j \in DOMAIN ms : i # j => ms[i] # ms[j]}

\* The variables of a request of /analyze, other than its position, its
\* inputs and the global model name, before the request starts.
RequestNotStarted ==
    /\ files = {}
    /\ media_mb = 0
    /\ ftp_objects = {}
    /\ video_path = Unbound
    /\ script_text = NoText
    /\ ig_i = 0
    /\ last_error = "None"
    /\ avg_path = Unbound
    /\ is_from_ftp = FALSE
    /\ remote_filename = "None"
    /\ uploaded_file = FALSE
    /\ artifact = "absent"
    /\ uploaded_mb = 0
    /\ seen_active = FALSE
    /\ waited = 0
    /\ model = "None"
    /\ attempt = 0
    /\ retry_delay = initial_retry_delay
    /\ waits = <<>>
    /\ rate_limited = 0
    /\ calls = [c \in CallNames |-> 0]
    /\ delete_failed = FALSE
    /\ rm_failed = FALSE
    /\ exc = NoException
    /\ response = NoResponse
    /\ ftp_url = Unbound
    /\ tried = <<>>
    /\ events = <<>>
    /\ service_text = NoText
    /\ gen_errors = <<>>
    /\ ftp_raised = FALSE
    /\ ftp_open = 0

\* The process before CHOSEN_MODEL is assigned.
InitStartup ==
    /\ pc = "startup"
    /\ CHOSEN_MODEL = "unset"
    /\ list_raises \in BOOLEAN
    /\ listed \in (IF list_raises THEN {<<>>} ELSE Listings)
    /\ user = "ok"
    /\ url = UrlTikTok
    /\ ftp_configured = FALSE
    /\ ftp_domain = FtpDomainUnset
    /\ RequestNotStarted
    /\ TranslateIdle
    /\ ConcIdle
    /\ ExtraIdle

\* CHOSEN_MODEL = get_best_model_name()
AssignChosenModel ==
    /\ pc = "startup"
    /\ CHOSEN_MODEL' = get_best_model_name(listed, list_raises)
    /\ pc' = "serving"
    /\ UNCHANGED <<user, url, ftp_configured, ftp_domain, files, media_mb,
                   ftp_objects, video_path, script_text, ig_i, last_error,
                   avg_path, is_from_ftp, remote_filename, uploaded_file,
                   artifact, uploaded_mb, seen_active, waited, model, attempt,
                   retry_delay, waits, rate_limited, calls, delete_failed,
                   rm_failed, exc, response, ftp_url, tried, events,
                   service_text, gen_errors, ftp_raised, ftp_open>>
    /\ UNCHANGED <<startupVars, translateVars, concVars, extraVars>>

NextStartup == AssignChosenModel

SpecStartup == InitStartup /\ [][NextStartup]_vars


(***************************************************************************)
(* Two /analyze requests served at the same time (one thread each).  Only  *)
(* the names of the files they use and who wrote each file are modelled.   *)
(* time.time() is the clock now, in whole seconds.                         *)
(***************************************************************************)
MaxTime == 2

\* temp_name = f"video_{int(time.time())}.mp4"
TempName(t) == <<"video", t>>
\* new_filename = f"video_{timestamp}.mp4"
RemoteName(t) == <<"video", t>>
\* video_path = f"temp_{int(time.time())}_{remote_filename}"
RetrievedName(t, remote) == <<"temp", t, remote[2]>>

\* A directory is a set of entries [path, owner]: the request that last
\* wrote the file at that path.
Exists(dir, p) == \E e \in dir : e.path = p
OwnerOf(dir, p) ==
    IF Exists(dir, p) THEN (CHOOSE e \in dir : e.path = p).owner ELSE NoOwner
WriteFile(dir, p, r) ==
    {e \in dir : e.path # p} \cup {[path |-> p, owner |-> r]}
RemoveFile(dir, p) == {e \in dir : e.path # p}

\* Request r writes, reads or removes a local file the other request wrote.
TouchesOther(r, p) == OwnerOf(c_files, p) \notin {r, NoOwner}

InitConc ==
    /\ pc = "concurrent"
    /\ CHOSEN_MODEL = StartupModel
    /\ user = "ok"
    /\ url = UrlTikTok
    /\ ftp_configured \in BOOLEAN
    /\ ftp_domain = (IF ftp_configured THEN FtpDomainScheme ELSE FtpDomainUnset)
    /\ RequestNotStarted
    /\ TranslateIdle
    /\ StartupIdle
    /\ ConcIdle
    /\ ExtraIdle

\* The clock passes to the next second.
Tick ==
    /\ now < MaxTime
    /\ now' = now + 1
    /\ UNCHANGED <<c_pc, c_temp, c_remote, c_local, c_files, c_ftp, c_touched>>
    /\ UNCHANGED <<requestVars, translateVars, startupVars, extraVars>>

\* download_video is called: temp_name is computed.
CallDownload(r) ==
    /\ c_pc[r] = "idle"
    /\ c_temp' = [c_temp EXCEPT ![r] = TempName(now)]
    /\ c_pc' = [c_pc EXCEPT ![r] = "downloading"]
    /\ UNCHANGED <<now, c_remote, c_local, c_files, c_ftp, c_touched>>
    /\ UNCHANGED <<requestVars, translateVars, startupVars, extraVars>>

\* yt-dlp writes temp_name; or it raises and the handler removes temp_name
\* if it exists.
DownloadStep(r) ==
    /\ c_pc[r] = "downloading"
    /\ \E ok \in BOOLEAN :
         IF ok
         THEN /\ c_files' = WriteFile(c_files, c_temp[r], r)
              /\ c_touched' = (c_touched \/ TouchesOther(r, c_temp[r]))
              /\ c_pc' = [c_pc EXCEPT ![r] =
                            IF ftp_configured THEN "staging" ELSE "analysis"]
         ELSE /\ c_files' = RemoveFile(c_files, c_temp[r])
              /\ c_touched' = (c_touched \/ TouchesOther(r, c_temp[r]))
              /\ c_pc' = [c_pc EXCEPT ![r] = "done"]
    /\ UNCHANGED <<now, c_temp, c_remote, c_local, c_ftp>>
    /\ UNCHANGED <<requestVars, translateVars, startupVars, extraVars>>

\* upload_video_to_ftp(temp_name) and, when it returns a URL,
\* os.remove(temp_name).  A missing temp_name raises: the request fails.
StageStep(r) ==
    /\ c_pc[r] = "staging"
    /\ IF ~Exists(c_files, c_temp[r])
       THEN /\ c_pc' = [c_pc EXCEPT ![r] = "done"]
            /\ UNCHANGED <<c_remote, c_files, c_ftp, c_touched>>
       ELSE \E ok \in BOOLEAN :
              /\ c_touched' = (c_touched \/ TouchesOther(r, c_temp[r]))
              /\ IF ok
                 THEN /\ c_remote' = [c_remote EXCEPT ![r] = RemoteName(now)]
                      /\ c_ftp' = WriteFile(c_ftp, RemoteName(now), r)
                      /\ c_files' = RemoveFile(c_files, c_temp[r])
                 ELSE UNCHANGED <<c_remote, c_ftp, c_files>>
              /\ c_pc' = [c_pc EXCEPT ![r] = "analysis"]
    /\ UNCHANGED <<now, c_temp, c_local>>
    /\ UNCHANGED <<requestVars, translateVars, startupVars, extraVars>>

\* analyze_video_with_gemini: a staged reference is retrieved into
\* temp_<t>_<remote>; a local path is used as it is.
AnalysisStart(r) ==
    /\ c_pc[r] = "analysis"
    /\ IF c_remote[r] = None
       THEN /\ c_local' = [c_local EXCEPT ![r] = c_temp[r]]
            /\ c_pc' = [c_pc EXCEPT ![r] = "submit"]
            /\ UNCHANGED <<c_files, c_touched>>
       ELSE LET p == RetrievedName(now, c_remote[r])
            IN IF Exists(c_ftp, c_remote[r])
               THEN /\ c_local' = [c_local EXCEPT ![r] = p]
                    /\ c_files' = WriteFile(c_files, p, r)
                    /\ c_touched' = (c_touched \/ TouchesOther(r, p))
                    /\ c_pc' = [c_pc EXCEPT ![r] = "submit"]
               ELSE /\ c_pc' = [c_pc EXCEPT ![r] = "except"]
                    /\ UNCHANGED <<c_local, c_files, c_touched>>
    /\ UNCHANGED <<now, c_temp, c_remote, c_ftp>>
    /\ UNCHANGED <<requestVars, translateVars, startupVars, extraVars>>

\* os.path.getsize(video_path) raises when the file is missing (outside the
\* try, so the finally block does not run); else genai.upload_file reads
\* video_path and os.remove(video_path) follows.
SubmitStep(r) ==
    /\ c_pc[r] = "submit"
    /\ IF Exists(c_files, c_local[r])
       THEN /\ c_touched' = (c_touched \/ TouchesOther(r, c_local[r]))
            /\ c_files' = RemoveFile(c_files, c_local[r])
            /\ c_pc' = [c_pc EXCEPT ![r] = "cleanup"]
       ELSE /\ c_pc' = [c_pc EXCEPT ![r] = "except"]
            /\ UNCHANGED <<c_files, c_touched>>
    /\ UNCHANGED <<now, c_temp, c_remote, c_local, c_ftp>>
    /\ UNCHANGED <<requestVars, translateVars, startupVars, extraVars>>

\* The rest of analyze_video_with_gemini: video_path is removed if it exists
\* when the service answers ACTIVE and, for a retrieved file, in the finally
\* block, which also deletes the staged object from the FTP host.
CleanupStep(r) ==
    /\ c_pc[r] = "cleanup"
    /\ \E active \in BOOLEAN :
         IF active \/ c_remote[r] # None
         THEN /\ c_touched' = (c_touched \/ TouchesOther(r, c_local[r]))
              /\ c_files' = RemoveFile(c_files, c_local[r])
         ELSE UNCHANGED <<c_files, c_touched>>
    /\ c_ftp' = IF c_remote[r] = None THEN c_ftp
                ELSE RemoveFile(c_ftp, c_remote[r])
    /\ c_pc' = [c_pc EXCEPT ![r] = "except"]
    /\ UNCHANGED <<now, c_temp, c_remote, c_local>>
    /\ UNCHANGED <<requestVars, translateVars, startupVars, extraVars>>

\* The handler of analyze(): video_path, when it is a local path, is removed
\* if it exists.
RouteExcept(r) ==
    /\ c_pc[r] = "except"
    /\ IF c_remote[r] = None
       THEN /\ c_touched' = (c_touched \/ TouchesOther(r, c_temp[r]))
            /\ c_files' = RemoveFile(c_files, c_temp[r])
       ELSE UNCHANGED <<c_files, c_touched>>
    /\ c_pc' = [c_pc EXCEPT ![r] = "done"]
    /\ UNCHANGED <<now, c_temp, c_remote, c_local, c_ftp>>
    /\ UNCHANGED <<requestVars, translateVars, startupVars, extraVars>>
NextConc ==
    \/ Tick
    \/ \E r \in Reqs : CallDownload(r)
    \/ \E r \in Reqs : DownloadStep(r)
    \/ \E r \in Reqs : StageStep(r)
    \/ \E r \in Reqs : AnalysisStart(r)
    \/ \E r \in Reqs : SubmitStep(r)
    \/ \E r \in Reqs : CleanupStep(r)
    \/ \E r \in Reqs : RouteExcept(r)

SpecConc == InitConc /\ [][NextConc]_vars

(***************************************************************************)
(* The error messages of /analyze.  A diagnostic text (of yt-dlp or of the *)
(* generative service) is described by its length and by whether it holds  *)
(* the words the handler at its site looks for; a message by its fixed     *)
(* text and by how many characters of the diagnostic it embeds.            *)
(***************************************************************************)
MaxDiagLen == 400

DiagLengths == {0, 100, 150, 151, 200, 201, MaxDiagLen}

\* len("Google từ chối file." + "\nChi tiết: ")
rejected_prefix_len == 31

\* Where the request fails.
FailureSites == {"instagram", "download", "upload_file", "get_file",
                 "status_failed", "model", "generate"}

\* marked: the text has "rejected" or "failed" (submission), "404",
\* "not found" or "not supported" (model), a rate-limit signal (generation).
Failures == [site : FailureSites, len : DiagLengths, marked : BOOLEAN]

\* len(text[:k]) for a text of n characters
SliceLen(n, k) == IF n < k THEN n ELSE k

\* How many characters of a text that starts with a prefix of p characters
\* and goes on with a diagnostic of n characters are diagnostic in text[:k].
SliceAfterPrefix(p, n, k) == IF k <= p THEN 0 ELSE SliceLen(n, k - p)

Message(head, n) == [head |-> head, excerpt |-> n]

\* f"Chi tiết: {error_msg[:150]}" after every Instagram strategy failed
InstagramMessage(f) == Message("instagram", SliceLen(f.len, 150))

\* raise RuntimeError(f"Lỗi tải video: {error_msg}")
DownloadMessage(f) == Message("download", f.len)

\* The except clause of the submission phase: a text with "rejected" or
\* "failed" is wrapped with error_msg[:200], any other exception is
\* re-raised as it is.
SubmissionMessage(f) ==
    IF f.site = "status_failed"
    THEN IF f.marked
         THEN Message("rejected",
                      SliceAfterPrefix(rejected_prefix_len, f.len, 200))
         ELSE Message("status_failed", f.len)
    ELSE IF f.marked
         THEN Message("rejected", SliceLen(f.len, 200))
         ELSE Message("", f.len)

\* genai.GenerativeModel raised: a not-found text ends in a message with
\* error_msg[:200], any other exception is re-raised as it is.
ModelMessage(f) ==
    IF f.marked THEN Message("model", SliceLen(f.len, 200))
    ELSE Message("", f.len)

\* The generation loop: the rate-limit error of the last attempt is wrapped
\* with error_msg[:200], any other exception is re-raised as it is.
GenerationMessage(f) ==
    IF f.marked THEN Message("quota", SliceLen(f.len, 200))
    ELSE Message("", f.len)

InitMessage ==
    /\ pc = "messages"
    /\ CHOSEN_MODEL = StartupModel
    /\ user = "ok"
    /\ url \in {UrlTikTok, UrlInstagram}
    /\ ftp_configured = FALSE
    /\ ftp_domain = FtpDomainUnset
    /\ RequestNotStarted
    /\ TranslateIdle
    /\ StartupIdle
    /\ ConcIdle
    /\ m_failure \in {f \in Failures :
                        /\ (f.site = "instagram") => IsInstagram(url)
                        /\ (f.site = "download") => ~IsInstagram(url)}
    /\ m_exc = NoMessage
    /\ m_body = NoMessage
    /\ AccountsIdle

\* download_video raises.
DownloadRaises ==
    /\ m_exc = NoMessage
    /\ m_failure.site \in {"instagram", "download"}
    /\ m_exc' = IF m_failure.site = "instagram"
                THEN InstagramMessage(m_failure)
                ELSE DownloadMessage(m_failure)
    /\ UNCHANGED <<m_failure, m_body>>
    /\ UNCHANGED <<requestVars, translateVars, startupVars, concVars, accountVars>>

\* The submission phase of analyze_video_with_gemini raises.
SubmissionRaises ==
    /\ m_exc = NoMessage
    /\ m_failure.site \in {"upload_file", "get_file", "status_failed"}
    /\ m_exc' = SubmissionMessage(m_failure)
    /\ UNCHANGED <<m_failure, m_body>>
    /\ UNCHANGED <<requestVars, translateVars, startupVars, concVars, accountVars>>

\* genai.GenerativeModel raises and no substitute is constructed.
ModelRaises ==
    /\ m_exc = NoMessage
    /\ m_failure.site = "model"
    /\ m_exc' = ModelMessage(m_failure)
    /\ UNCHANGED <<m_failure, m_body>>
    /\ UNCHANGED <<requestVars, translateVars, startupVars, concVars, accountVars>>

\* The generation loop raises.
GenerationRaises ==
    /\ m_exc = NoMessage
    /\ m_failure.site = "generate"
    /\ m_exc' = GenerationMessage(m_failure)
    /\ UNCHANGED <<m_failure, m_body>>
    /\ UNCHANGED <<requestVars, translateVars, startupVars, concVars, accountVars>>

\* analyze(): return jsonify({"error": str(e)}), 500
RespondError ==
    /\ m_exc # NoMessage
    /\ m_body = NoMessage
    /\ m_body' = m_exc
    /\ UNCHANGED <<m_failure, m_exc>>
    /\ UNCHANGED <<requestVars, translateVars, startupVars, concVars, accountVars>>

NextMessage ==
    \/ DownloadRaises
    \/ SubmissionRaises
    \/ ModelRaises
    \/ GenerationRaises
    \/ RespondError

SpecMessage == InitMessage /\ [][NextMessage]_vars

(***************************************************************************)
(* Accounts: register, login, the admin's block call, and the entry checks *)
(* of the two endpoints that reach the generative service.  A bearer token *)
(* is a user id; 0 stands for a missing or malformed Authorization header. *)
(***************************************************************************)
MaxUsers == 3
MaxBlockCalls == 3

\* Usernames a request may carry, "" for a missing one.
Usernames == {"", "admin", "u1", "u2"}
Tokens == 0..MaxUsers

\* get_current_user(): db.session.get(User, user_id), None as row 0
HasUser(token) == token \in DOMAIN a_db
\* User.query.filter_by(username=username).first()
IdsNamed(name) == {i \in DOMAIN a_db : a_db[i].username = name}

\* user.is_blocked of the caller, FALSE when there is no such user
CallerBlocked(token) == HasUser(token) /\ a_db[token].is_blocked

Answer(endpoint, token, status, service) ==
    [endpoint |-> endpoint, token |-> token, blocked |-> CallerBlocked(token),
     status |-> status, service |-> service]

\* A block call that refuses no target.
CannotBlockNobody(row) == FALSE

\* if user.is_admin: return 400 "Cannot block admin user"
CannotBlock(row) == row.is_admin

\* user.is_blocked = not user.is_blocked
Toggle(b) == ~b

InitAccounts ==
    /\ pc = "accounts"
    /\ CHOSEN_MODEL = StartupModel
    /\ user = "ok"
    /\ url = UrlTikTok
    /\ ftp_configured = FALSE
    /\ ftp_domain = FtpDomainUnset
    /\ RequestNotStarted
    /\ TranslateIdle
    /\ StartupIdle
    /\ ConcIdle
    /\ MessageIdle
    /\ AccountsIdle

\* register()
Register(name, has_password) ==
    /\ Len(a_db) < MaxUsers
    /\ IF name = "" \/ ~has_password
       THEN /\ a_response' = Answer("register", 0, 400, FALSE)
            /\ UNCHANGED <<a_db, a_log>>
       ELSE IF IdsNamed(name) # {}
       THEN /\ a_response' = Answer("register", 0, 400, FALSE)
            /\ UNCHANGED <<a_db, a_log>>
       ELSE /\ a_db' = Append(a_db, [username |-> name, is_admin |-> FALSE,
                                     is_blocked |-> FALSE])
            /\ a_log' = Append(a_log, <<FALSE>>)
            /\ a_response' = Answer("register", 0, 200, FALSE)
    /\ UNCHANGED <<requestVars, translateVars, startupVars, concVars, messageVars>>

\* login()
Login(name, password_ok) ==
    /\ LET ids == IdsNamed(name)
       IN IF ids = {} \/ ~password_ok
          THEN a_response' = Answer("login", 0, 401, FALSE)
          ELSE LET i == CHOOSE i \in ids : TRUE
               IN IF a_db[i].is_blocked
                  THEN a_response' = Answer("login", i, 403, FALSE)
                  ELSE a_response' = Answer("login", i, 200, FALSE)
    /\ UNCHANGED <<a_db, a_log>>
    /\ UNCHANGED <<requestVars, translateVars, startupVars, concVars, messageVars>>

\* api_admin_block_user(user_id)
AdminBlock(token, user_id) ==
    /\ \A i \in DOMAIN a_log : Len(a_log[i]) <= MaxBlockCalls
    /\ IF ~HasUser(token) \/ ~a_db[token].is_admin
       THEN /\ a_response' = Answer("block", token, 403, FALSE)
            /\ UNCHANGED <<a_db, a_log>>
       ELSE IF user_id \notin DOMAIN a_db
       THEN /\ a_response' = Answer("block", token, 404, FALSE)
            /\ UNCHANGED <<a_db, a_log>>
       ELSE IF CannotBlock(a_db[user_id])
       THEN /\ a_response' = Answer("block", token, 400, FALSE)
            /\ UNCHANGED <<a_db, a_log>>
       ELSE /\ a_db' = [a_db EXCEPT ![user_id].is_blocked = Toggle(@)]
            /\ a_log' = [a_log EXCEPT ![user_id] =
                            Append(@, Toggle(a_db[user_id].is_blocked))]
            /\ a_response' = Answer("block", token, 200, FALSE)
    /\ UNCHANGED <<requestVars, translateVars, startupVars, concVars, messageVars>>

\* analyze(): the checks before download_video; a request that passes them
\* goes on to the download and the generative service.
AnalyzeEntry(token, has_url) ==
    /\ a_response' =
         IF ~HasUser(token) THEN Answer("analyze", token, 401, FALSE)
         ELSE IF a_db[token].is_blocked THEN Answer("analyze", token, 403, FALSE)
         ELSE IF ~has_url THEN Answer("analyze", token, 400, FALSE)
         ELSE Answer("analyze", token, 500, TRUE)
    /\ UNCHANGED <<a_db, a_log>>
    /\ UNCHANGED <<requestVars, translateVars, startupVars, concVars, messageVars>>

\* api_translate(): the checks before generate_content (the user and the
\* text; is_blocked is not read); a request that passes them calls the
\* generative service.
TranslateEntry(token, has_text, generated) ==
    /\ a_response' =
         IF ~HasUser(token) THEN Answer("translate", token, 401, FALSE)
         ELSE IF ~has_text THEN Answer("translate", token, 400, FALSE)
         ELSE Answer("translate", token, IF generated THEN 200 ELSE 500, TRUE)
    /\ UNCHANGED <<a_db, a_log>>
    /\ UNCHANGED <<requestVars, translateVars, startupVars, concVars, messageVars>>

NextAccounts ==
    \/ \E name \in Usernames, has_password \in BOOLEAN :
          Register(name, has_password)
    \/ \E name \in Usernames, password_ok \in BOOLEAN : Login(name, password_ok)
    \/ \E token \in Tokens, user_id \in 1..MaxUsers + 1 :
          AdminBlock(token, user_id)
    \/ \E token \in Tokens, has_url \in BOOLEAN : AnalyzeEntry(token, has_url)
    \/ \E token \in Tokens, has_text \in BOOLEAN, generated \in BOOLEAN :
          TranslateEntry(token, has_text, generated)

SpecAccounts == InitAccounts /\ [][NextAccounts]_vars
(***************************************************************************)
(* Properties                                                              *)
(***************************************************************************)
Done == pc = "done"

\* The URLs of the model that contain an own-host pattern, in any case.
OwnHostUrls == {UrlOwnRender, UrlOwnUpper, UrlOwnInQuery}

\* C1: when download_video and analyze_video_with_gemini both returned, the
\* response is 200 with the script analyze_video_with_gemini returned.
C1_SuccessReturnsScript ==
    (Done /\ user = "ok" /\ url # NoUrl /\ script_text # NoText)
        => response = ScriptResponse(script_text)

\* C2: for an artifact seen ACTIVE, exactly one genai.delete_file call has
\* been issued when the request ends, on every exit path.
C2_ExactlyOneDelete ==
    (Done /\ seen_active) => calls["delete_file"] = 1

\* C3: when the submission phase ends in an error after upload_file
\* returned (FAILED, timeout, a raising status query), a genai.delete_file
\* call has been issued by the time analyze_video_with_gemini raises.
C3_DeleteOnSubmissionError ==
    (pc \in {"except", "done"}
       /\ exc \in {"RejectedByService", "ProcessingTimeout", "StatusQueryError"})
        => calls["delete_file"] >= 1

\* C4: after the response, on every exit path (no os.remove call having
\* failed), no local media file of the request exists.
C4_NoLocalFileLeft ==
    (Done /\ ~rm_failed) => files = {}

\* C5: whenever download_video returned a staged reference, delete_from_ftp
\* has been invoked when analyze_video_with_gemini has returned or raised.
C5_StagedObjectDeleted ==
    (pc \in {"except", "after_analysis", "done"}
       /\ video_path \notin {Unbound, temp_name})
        => calls["ftp_delete"] >= 1

\* C6: the waits made between rate-limited attempts of one request are
\* monotonically non-decreasing.
C6_WaitsNonDecreasing ==
    \A k \in 1..(Len(waits) - 1) : waits[k] <= waits[k + 1]

\* C7: generate_content is invoked at most 3 times per request, and when
\* three invocations failed with a rate-limit signal the request fails with
\* the quota-exceeded (RateLimited) error.
C7_ThreeAttemptsThenRateLimited ==
    /\ calls["generate_content"] <= 3
    /\ rate_limited <= 3
    /\ (Done /\ rate_limited = 3)
          => (response = ErrorResponse(500, "RateLimited") /\ script_text = NoText)

C7_Witness ==
    /\ Done
    /\ rate_limited = 3
    /\ calls["generate_content"] = 3
    /\ response = ErrorResponse(500, "RateLimited")

\* C8: for a URL containing an own-host pattern (in any case) download_video
\* raises the invalid-link error before any download-tool, FTP or
\* inference-service call, and no local file is created.
C8_OwnHostRejectedFirst ==
    (url \in OwnHostUrls)
        => /\ \A c \in CallNames : calls[c] = 0
           /\ files = {}
           /\ pc \in {"analyze", "download_video", "except", "done"}
           /\ (pc = "except") => exc = "InvalidSource"
           /\ (Done /\ user = "ok") => response.body = "InvalidSource"

C8_Witness ==
    /\ Done
    /\ url = UrlOwnUpper
    /\ exc = "InvalidSource"
    /\ response.body = "InvalidSource"

\* C9: when the URL matches the own-host patterns (InvalidSource), the
\* response has status 400.
C9_InvalidSourceIs400 ==
    (Done /\ exc = "InvalidSource") => response.status = 400

\* C10: a downloaded file larger than the size limit (45MB against 30MB) is
\* never submitted to the inference service; the request fails with
\* PayloadTooLarge and the local file is gone.
C10_OversizedNeverSubmitted ==
    /\ uploaded_mb <= 30
    /\ (Done /\ video_path # Unbound /\ media_mb > 30)
          => (response.body = "PayloadTooLarge" /\ files = {})

\* A sequence is an initial part of another.
IsPrefix(s, t) ==
    /\ Len(s) <= Len(t)
    /\ \A k \in DOMAIN s : s[k] = t[k]

InstagramUrls == {UrlInstagram, UrlInstagramUpper}

\* The three Instagram strategies in the order of the list.
StrategyOrder == <<"best_iphone", "worst_chrome", "worst_android">>

\* C11: for an Instagram URL the strategies are attempted in the order of the
\* list, one more than the number that failed at most; download_video returns
\* at the first success with no later attempt, and raises DownloadFailed only
\* after all three failed, with the error of the last one.
C11_StrategiesInOrder ==
    /\ IsPrefix(tried, StrategyOrder)
    /\ (url \notin InstagramUrls) => tried = <<>>
    /\ (url \in InstagramUrls) =>
          /\ calls["ydl"] = Len(tried)
          /\ Len(tried) \in {ig_i, ig_i + 1}
          /\ (Len(tried) = ig_i + 1)
                => (video_path = temp_name /\ exc # "DownloadFailed")
          /\ (video_path # Unbound) => Len(tried) = ig_i + 1
          /\ (exc = "DownloadFailed")
                => /\ tried = StrategyOrder
                   /\ ig_i = 3
                   /\ last_error = "worst_android"
                   /\ video_path = Unbound

C11_Witness ==
    /\ url = UrlInstagram
    /\ pc = "analyze_video"
    /\ tried = StrategyOrder
    /\ ig_i = 2
    /\ video_path = temp_name

\* C12: the polling loop issues at most 60 status queries and waits 2 after
\* each query that found neither ACTIVE nor FAILED; it times out only after
\* 60 such queries and 120 waited; once ACTIVE was observed, on the 60th
\* query included, the loop is left and there is no timeout.
C12_PollingBounded ==
    /\ calls["get_file"] <= 60
    /\ waited <= 120
    /\ (pc = "poll") => waited = 2 * calls["get_file"]
    /\ (calls["get_file"] > 0)
          => waited \in {2 * calls["get_file"], 2 * (calls["get_file"] - 1)}
    /\ (exc = "ProcessingTimeout")
          => /\ calls["get_file"] = 60
             /\ waited = 120
             /\ ~seen_active
    /\ seen_active => (pc # "poll" /\ exc # "ProcessingTimeout")

C12_Witness ==
    /\ pc = "GenerativeModel"
    /\ seen_active
    /\ calls["get_file"] = 60
    /\ waited = 118

\* C13: once a status query returned FAILED the request is in its error
\* path with RejectedByService: that query was the last one, and no model is
\* constructed and no generate_content call made.
C13_FailedRejectsAtOnce ==
    (artifact = "FAILED")
        => /\ pc \in {"except", "done"}
           /\ exc = "RejectedByService"
           /\ 2 * calls["get_file"] = waited + 2
           /\ calls["GenerativeModel"] = 0
           /\ calls["generate_content"] = 0
           /\ ~seen_active

C13_Witness ==
    /\ Done
    /\ artifact = "FAILED"
    /\ exc = "RejectedByService"
    /\ calls["get_file"] = 1

\* The order of a request's events.
EventOrder == <<"download_returned", "upload_file", "ACTIVE",
                "generate_content", "delete_file">>

\* C14: the first occurrences of a request's events follow the order
\* download returned, upload_file, ACTIVE status, generate_content,
\* delete_file, none occurring before the one it follows: generate_content
\* is not invoked without an ACTIVE status, upload_file not before
\* download_video returned.
C14_EventsInOrder ==
    /\ IsPrefix(events, EventOrder)
    /\ Seen(events, "download_returned") <=> (video_path # Unbound)
    /\ Seen(events, "upload_file") <=> (calls["upload_file"] > 0)
    /\ Seen(events, "ACTIVE") <=> seen_active
    /\ Seen(events, "generate_content") <=> (calls["generate_content"] > 0)
    /\ Seen(events, "delete_file") <=> (calls["delete_file"] > 0)

C14_Witness ==
    /\ Done
    /\ events = EventOrder
    /\ artifact = "deleted"

\* C15: analyze_video_with_gemini returns only after a generation call
\* succeeded, and returns the response's text if it is not empty, the
\* placeholder if it is, whatever the number of rate-limited attempts before.
C15_ReturnsServiceText ==
    /\ (service_text # NoText)
          => script_text = (IF service_text = "" THEN Placeholder
                            ELSE service_text)
    /\ (script_text # NoText) => service_text # NoText

C15_Witness ==
    /\ pc = "after_analysis"
    /\ rate_limited = 2
    /\ service_text # ""
    /\ script_text = service_text

\* C16: the k-th wait follows the k-th failed call: it is floor(N)+2 when
\* that error has a hint of N seconds, else the current delay, which is 5 at
\* first and twice the previous wait afterwards.
C16_WaitFromHintOrDelay ==
    /\ Len(waits) <= Len(gen_errors)
    /\ \A k \in DOMAIN waits :
         waits[k] = IF gen_errors[k].hint # NoHint
                    THEN (gen_errors[k].hint[1] \div 10) + 2
                    ELSE IF k = 1 THEN 5 ELSE 2 * waits[k - 1]
    /\ retry_delay = IF waits = <<>> THEN 5 ELSE 2 * waits[Len(waits)]

C16_Witness ==
    /\ pc = "generate"
    /\ Len(gen_errors) = 2
    /\ gen_errors[1].hint = <<35>>
    /\ gen_errors[2].hint = NoHint
    /\ waits = <<5, 10>>

\* C17: a failed generate_content call whose error is not a rate-limit
\* signal is the request's last generate_content call: the error is raised,
\* nothing is returned and no wait follows it.
C17_NoRetryAfterOtherError ==
    \A k \in DOMAIN gen_errors :
        (gen_errors[k].head = "500 Internal")
            => /\ k = Len(gen_errors)
               /\ pc \in {"except", "done"}
               /\ exc = "ServiceUnavailable"
               /\ calls["generate_content"] = k
               /\ Len(waits) = k - 1
               /\ script_text = NoText

C17_Witness ==
    /\ Done
    /\ Len(gen_errors) = 2
    /\ gen_errors[1].head = "429 Too Many Requests"
    /\ gen_errors[2].head = "500 Internal"

\* C18: CHOSEN_MODEL keeps its startup value in every state; the substitute
\* is only the model of the request that found it.
C18_ChosenModelNeverWritten ==
    /\ CHOSEN_MODEL = StartupModel
    /\ model \in {"None", StartupModel, fallback_model}
    /\ (model = fallback_model) => calls["list_models"] = 1

C18_Witness ==
    /\ Done
    /\ model = fallback_model
    /\ CHOSEN_MODEL = StartupModel
    /\ calls["generate_content"] > 0

\* C19: no FTP helper lets an exception escape; what upload_video_to_ftp
\* returned is None or the public URL; without FTP configuration no
\* connection is opened and nothing is staged.
C19_FtpHelpersNeverRaise ==
    /\ ~ftp_raised
    /\ exc # "FtpError"
    /\ ftp_url \in {Unbound, None, PublicUrl(ftp_domain)}
    /\ ~ftp_configured
          => /\ calls["ftp_connect"] = 0
             /\ ftp_url \in {Unbound, None}
             /\ ftp_objects = {}
             /\ ~is_from_ftp

C19_Witness ==
    /\ ftp_configured
    /\ pc = "analyze_video"
    /\ ftp_url = None
    /\ calls["ftp_connect"] = 1
    /\ new_filename \in ftp_objects

\* C20: when upload_video_to_ftp returned None, download_video returned the
\* local path without raising, and the local file exists until upload_file
\* is called with it.
C20_LocalCopyKept ==
    (ftp_url = None)
        => /\ video_path = temp_name
           /\ exc # "DownloadFailed"
           /\ calls["ftp_retr"] = 0
           /\ (pc \in {"analyze_video", "upload_file"}) => temp_name \in files
           /\ (pc = "upload_file") => avg_path = temp_name

C20_Witness ==
    /\ ~ftp_configured
    /\ ftp_url = None
    /\ calls["upload_file"] = 1
    /\ uploaded_file
    /\ avg_path = temp_name

\* C21: when download_video returned a staged reference the local download
\* is gone, and upload_file is called only after download_from_ftp brought
\* the staged file back under its temporary local name.
C21_StagedMeansLocalDeleted ==
    (video_path \notin {Unbound, temp_name})
        => /\ video_path = ftp_url
           /\ ftp_url = PublicUrl(ftp_domain)
           /\ temp_name \notin files
           /\ (pc = "upload_file" \/ calls["upload_file"] > 0)
                 => /\ calls["ftp_retr"] = 1
                    /\ is_from_ftp
                    /\ avg_path = TempPathFor(Basename(video_path))
           /\ (pc = "upload_file") => avg_path \in files

C21_Witness ==
    /\ video_path = PublicUrl(FtpDomainScheme)
    /\ new_filename \in ftp_objects
    /\ calls["ftp_retr"] = 1
    /\ calls["upload_file"] = 1
    /\ is_from_ftp

\* C22: a request that passed the authentication, blocked and url checks
\* and met an exception ends with the JSON error response of status 500
\* carrying that exception's message.
C22_ExceptionsBecome500 ==
    /\ (pc = "except") => (user = "ok" /\ url # NoUrl /\ exc # NoException)
    /\ (Done /\ exc # NoException) => response = ErrorResponse(500, exc)
    /\ response.kind # "unhandled"

C22_Witness ==
    /\ Done
    /\ exc = "ProcessingTimeout"
    /\ response = ErrorResponse(500, "ProcessingTimeout")

\* C23: a failing cleanup action does not change the outcome: a download
\* that was staged does not end in the download error, a request that got a
\* script while a cleanup action failed answers with that script, and the
\* error answered is the one that was raised.
C23_CleanupNeverChangesOutcome ==
    /\ (ftp_url \notin {Unbound, None}) => exc # "DownloadFailed"
    /\ (Done /\ script_text # NoText /\ (rm_failed \/ delete_failed))
          => response = ScriptResponse(script_text)
    /\ (Done /\ exc # NoException) => response.body = exc

\* C25: for a request without a valid user, from a blocked user or without
\* a url, no collaborator is ever called and no file is created; the answer
\* is 401, 403 or 400.
C25_ChecksPrecedeDownload ==
    (user # "ok" \/ url = NoUrl)
        => /\ pc \in {"analyze", "done"}
           /\ \A c \in CallNames : calls[c] = 0
           /\ files = {}
           /\ video_path = Unbound
           /\ Done => response.status = (IF user = "anonymous" THEN 401
                                         ELSE IF user = "blocked" THEN 403
                                         ELSE 400)

C25_Witness ==
    /\ Done
    /\ user = "blocked"
    /\ url = UrlTikTok
    /\ response.status = 403

\* Three rate-limited generation attempts, none with a delay hint.
ThreeUnhintedRateLimits ==
    /\ rate_limited = 3
    /\ \A k \in DOMAIN gen_errors : gen_errors[k].hint = NoHint

\* C28 as stated: three rate-limited attempts without hints incur waits of
\* 5, 10 and 20.
C28_ThreeWaits ==
    ThreeUnhintedRateLimits => waits = <<5, 10, 20>>

\* C28 amended: three rate-limited attempts without hints incur two waits,
\* 5 then 10; the third attempt raises the quota error without a wait, the
\* delay having reached 20.
C28_TwoWaits ==
    ThreeUnhintedRateLimits
        => /\ waits = <<5, 10>>
           /\ retry_delay = 20
           /\ exc = "RateLimited"
           /\ calls["generate_content"] = 3

C28_Witness ==
    /\ Done
    /\ ThreeUnhintedRateLimits
    /\ waits = <<5, 10>>
    /\ response = ErrorResponse(500, "RateLimited")

\* C30: every FTP helper that established a connection issued quit before
\* it returned: no connection is left open.
C30_QuitBeforeReturn ==
    ftp_open = 0

\* How the generation loop of /analyze ended.
AnalyzeOutcome ==
    IF pc = "generate" THEN "running"
    ELSE IF service_text # NoText THEN "success"
    ELSE IF exc = "RateLimited" THEN "RateLimited"
    ELSE IF exc = "ServiceUnavailable" THEN "propagated"
    ELSE "no return"

\* The state of /analyze at the entry of its generation loop.
GenerationEntry ==
    /\ pc = "generate"
    /\ url = UrlTikTok
    /\ ~ftp_configured
    /\ files = {}
    /\ waited = 0
    /\ calls = [c \in CallNames |->
                  IF c \in {"ydl", "upload_file", "get_file", "GenerativeModel"}
                  THEN 1 ELSE 0]
    /\ model = StartupModel
    /\ gen_errors = <<>>
    /\ events = <<"download_returned", "upload_file", "ACTIVE">>
    /\ ~rm_failed

\* C24: given the responses the generation loop of /analyze got, the retry
\* loop of api_translate makes the same calls and the same waits: once it
\* has made as many calls, its waits, its delay, its attempt and the way it
\* ended are those of the generation loop.
C24_SameRetryPolicy ==
    /\ t_calls <= calls["generate_content"]
    /\ IsPrefix(t_waits, waits)
    /\ (t_calls = calls["generate_content"])
          => /\ t_waits = waits
             /\ t_retry_delay = retry_delay
             /\ t_attempt = attempt
             /\ t_outcome = AnalyzeOutcome

C24_Witness ==
    /\ pc = "after_analysis"
    /\ t_outcome = "success"
    /\ t_calls = 3
    /\ calls["generate_content"] = 3
    /\ Len(t_waits) = 2
    /\ t_waits = waits

\* The names of the model that contain an excluded pattern.
ExcludedNames == {"models/gemini-1.5-flash-latest", "models/gemini-2.5-flash",
                  "models/gemma-7b", "models/Gemini-Exp-1206"}

\* C26: when list_models() did not raise, the name assigned to CHOSEN_MODEL
\* contains none of gemma, 2.5, 2.0, exp, latest, preview, 3-pro.
C26_NeverExcluded ==
    (pc = "serving" /\ ~list_raises) => CHOSEN_MODEL \notin ExcludedNames

\* The listed models that survive filtering, in order, and those of each
\* family among them.
Survivors ==
    SelectSeq(listed, LAMBDA m : m \in {"models/gemini-1.5-flash-002",
                                        "models/gemini-1.5-pro-001",
                                        "models/gemini-1.5-pro-003",
                                        "models/gemini-pro",
                                        "models/gemini-1.0-ultra"})
SurvivorSet == {Survivors[k] : k \in DOMAIN Survivors}
FlashNames == {"models/gemini-1.5-flash-002"}
Pro15Names == {"models/gemini-1.5-pro-001", "models/gemini-1.5-pro-003"}
GeminiProNames == {"models/gemini-pro"}

\* C27: the name assigned is the default when list_models() raised;
\* otherwise, among the survivors, a gemini-1.5-flash variant if there is
\* one, else a gemini-1.5-pro model, else a gemini-pro model, else the
\* first survivor.
C27_PriorityOrder ==
    (pc = "serving")
        => IF list_raises THEN CHOSEN_MODEL = "models/gemini-1.5-flash-001"
           ELSE IF SurvivorSet \cap FlashNames # {}
           THEN CHOSEN_MODEL \in SurvivorSet \cap FlashNames
           ELSE IF SurvivorSet \cap Pro15Names # {}
           THEN CHOSEN_MODEL \in SurvivorSet \cap Pro15Names
           ELSE IF SurvivorSet \cap GeminiProNames # {}
           THEN CHOSEN_MODEL \in SurvivorSet \cap GeminiProNames
           ELSE IF Survivors # <<>> THEN CHOSEN_MODEL = Survivors[1]
           ELSE TRUE

\* C29: two concurrent requests have the same local download file name
\* exactly when they called download_video in the same second, and two
\* requests that called it in different seconds never write, read or remove
\* a local file the other one wrote.
C29_DifferentSecondsNeverTouch ==
    \A r1, r2 \in Reqs :
        (r1 # r2 /\ c_temp[r1] # None /\ c_temp[r2] # None)
            => /\ (c_temp[r1] = c_temp[r2]) <=> (c_temp[r1][2] = c_temp[r2][2])
               /\ (c_temp[r1][2] # c_temp[r2][2]) => ~c_touched

\* C31: once a status query has returned ACTIVE, and whenever
\* generate_content has been invoked, the local file that was given to
\* upload_file no longer exists.
C31_LocalGoneAtActive ==
    (seen_active \/ calls["generate_content"] > 0) => avg_path \notin files

\* C32: the error message of a response of /analyze embeds at most 200
\* characters of the diagnostic text of the download tool or of the
\* service, whatever phase failed.
C32_ExcerptBounded ==
    (m_body # NoMessage) => m_body.excerpt <= 200

\* C33: once a genai.delete_file call has succeeded, the request issues no
\* further delete_file call.  At most two calls are issued, and the second
\* one only after the first one raised; as the outcome of every call is
\* free, a second call after a successful first one would show as two
\* calls none of which raised.
C33_NoDeleteAfterSuccess ==
    /\ calls["delete_file"] <= 2
    /\ (calls["delete_file"] = 2) => delete_failed
    /\ (artifact = "deleted" /\ ~delete_failed) => calls["delete_file"] = 1

C33_Witness ==
    /\ Done
    /\ artifact = "deleted"
    /\ service_text # NoText
    /\ calls["delete_file"] = 1
    /\ ~delete_failed

\* C34: a request of /analyze or /api/translate sent by a user whose
\* is_blocked flag is set is rejected before the generative service is
\* called.
C34_BlockedNeverServed ==
    (a_response.endpoint \in {"analyze", "translate"} /\ a_response.blocked)
        => ~a_response.service

\* C35: no user has is_admin and is_blocked both set; every accepted block
\* call flipped is_blocked of its target, so that the value after two
\* successive accepted calls is the value before them.
C35_AdminNeverBlocked ==
    /\ \A i \in DOMAIN a_db : ~(a_db[i].is_admin /\ a_db[i].is_blocked)
    /\ \A i \in DOMAIN a_log :
         /\ a_log[i][1] = FALSE
         /\ a_log[i][Len(a_log[i])] = a_db[i].is_blocked
         /\ \A k \in 2..Len(a_log[i]) : a_log[i][k] = ~a_log[i][k - 1]
         /\ \A k \in 3..Len(a_log[i]) : a_log[i][k] = a_log[i][k - 2]

C35_Witness ==
    /\ a_response.endpoint = "block"
    /\ a_response.status = 200
    /\ \E i \in DOMAIN a_db :
         /\ ~a_db[i].is_admin
         /\ Len(a_log[i]) = 3
         /\ ~a_db[i].is_blocked

\* C36: a staged reference returned by download_video begins with http://
\* or https://, whatever FTP_DOMAIN is, and analyze_video_with_gemini never
\* takes it for a local path.
C36_StagedReferenceRecognized ==
    (video_path \notin {Unbound, temp_name})
        => /\ StartsWithHttp(video_path)
           /\ avg_path # video_path
====
